---- MODULE Spec2Model ----
(***************************************************************************)
(* Terminus: the shared world of a terminal raycasting game.  A GameServer *)
(* owns one Map, one ProjectileManager, the NPC list and the registry of   *)
(* PlayerSessions; one world tick loop calls GameServer.Update while each  *)
(* connected session handles its own input.                                *)
(*                                                                         *)
(* Every float64 of the program is a fixed-point integer in hundredths     *)
(* (1.0 is FP = 100): positions, directions, speeds, timers and deltaTime. *)
(* Directions are taken from the unit vectors that are exact in            *)
(* hundredths (the axes and the 3-4-5 diagonals), so that every product    *)
(* the code computes is exact in the model.                                *)
(***************************************************************************)
EXTENDS Integers, Sequences, FiniteSets, TLC

VARIABLES
    Map,            \* GameServer.Map: [Width, Height, Grid]
    Players,        \* GameServer.Players: session id -> session object (0: no entry)
    sessions,       \* the PlayerSession objects ever allocated, in allocation order
    PlayersMutex,   \* GameServer.PlayersMutex: [w: holder of the write lock or -1, r: readers]
    Projectiles,    \* ProjectileManager.Projectiles: a slice of Projectile pointers
    projHeap,       \* the Projectile objects ever allocated, in allocation order
    NPCs,           \* GameServer.NPCs: the NPC objects, in slice order
    NPCsMutex,      \* GameServer.NPCsMutex
    pc,             \* position of every goroutine in the function it runs
    ret,            \* the result of the call a goroutine is about to return
    randDraws,      \* the values rand.Float64() may return in this run
    joinHist,       \* history of the joins served, kept while no leave was served
    tick,           \* the locals of the running GameServer.Update: [dt, hdr, i, active]
    loc,            \* the locals of each session goroutine: [hdr, p, npcs]
    obs,            \* what each session's last read of the shared collections saw
    updCount,       \* history: Projectile.Update calls per projectile in this tick
    npcCount,       \* history: NPC.Update calls per NPC in this tick
    nTicks,         \* history: how many world ticks (frames, in the local game) have started
    flight,         \* history: per projectile, the time it has flown and whether its path met a wall
    nCalls,         \* history: how many calls the whole server has served
    probe,          \* the arguments and results of the last Map query made
    screen,         \* the display surface: [Width, Height, GameHeight, Buffer]
    zBuffer,        \* Renderer.zBuffer: the wall depth recorded per screen column
    cast,           \* the locals of the running Renderer.Render: the ray of column x
    sprites,        \* the locals of renderAllSprites: the collected sprites and the next to draw
    reader,         \* the input reader goroutine: [pc, buf]
    inputCh,        \* the input channel of the session loop, oldest byte first
    bytesRead,      \* history: the bytes the input reader has read from the terminal
    bytesDelivered  \* history: the bytes the game loop has received from the channel

regVars == <<Players, sessions, PlayersMutex>>
worldVars == <<Projectiles, projHeap, NPCs, NPCsMutex>>
cfgVars == <<Map, randDraws>>
tickVars == <<tick, loc, obs, updCount, npcCount, nTicks, flight, nCalls>>
drawVars == <<screen, zBuffer, cast, sprites>>
inputVars == <<reader, inputCh, bytesRead, bytesDelivered>>
viewVars == <<probe, drawVars, inputVars>>
vars == <<cfgVars, regVars, worldVars, pc, ret, joinHist, tickVars, viewVars>>

\* no display, no renderer and no input reader: the state of the runs that
\* exercise the shared world alone
NoView ==
    /\ probe = <<>>
    /\ screen = <<>>
    /\ zBuffer = <<>>
    /\ cast = <<>>
    /\ sprites = <<>>
    /\ reader = <<>>
    /\ inputCh = <<>>
    /\ bytesRead = <<>>
    /\ bytesDelivered = <<>>

(***************************************************************************)
(* Bounds of the model.                                                    *)
(***************************************************************************)
\* the maxPlayers argument of NewGameServer (10 in the shipped server)
MaxPlayers == 2
\* how many PlayerSession objects a run may allocate in all
MaxSessions == 3

\* how many Projectile objects a run may allocate in all
MaxProjectiles == 2
\* how many world ticks a run may start
MaxTicks == 2
\* how many frames the single-player loop may run
MaxFrames == 4
\* how many calls a run of the whole server may make in all
MaxCalls == 5

NumClients == MaxPlayers + 1
Clients == 1..NumClients
TickLoop == 0
Goroutines == {TickLoop} \cup Clients
\* every connection has its own session id: client t joins and leaves as t
SessionIDs == Clients

(***************************************************************************)
(* Fixed point and vectors (game/vector.go).                               *)
(***************************************************************************)
FP == 100

Abs(a) == IF a < 0 THEN -a ELSE a

\* the float64 product a*b of two fixed-point numbers
FMul(a, b) == IF (a < 0) = (b < 0) THEN (Abs(a) * Abs(b)) \div FP
              ELSE -((Abs(a) * Abs(b)) \div FP)

\* Go's int(f): truncation toward zero, so int(-0.5) is 0
GoInt(f) == IF f >= 0 THEN f \div FP ELSE -((-f) \div FP)

Vec(x, y) == [X |-> x, Y |-> y]

Add(v, other) == Vec(v.X + other.X, v.Y + other.Y)

Sub(v, other) == Vec(v.X - other.X, v.Y - other.Y)

Scale(v, s) == Vec(FMul(v.X, s), FMul(v.Y, s))

(***************************************************************************)
(* The Map (game/world.go).  Cell (x, y), counted from 0, is Grid[y+1][x+1].*)
(***************************************************************************)
IsWall(m, x, y) ==
    IF x < 0 \/ x >= m.Width \/ y < 0 \/ y >= m.Height THEN TRUE
    ELSE m.Grid[y + 1][x + 1] # 0

GetWallType_OpenOutside(m, x, y) ==
    IF x < 0 \/ x >= m.Width \/ y < 0 \/ y >= m.Height THEN 0
    ELSE m.Grid[y + 1][x + 1]

GetWallType(m, x, y) ==
    IF x < 0 \/ x >= m.Width \/ y < 0 \/ y >= m.Height THEN 1
    ELSE m.Grid[y + 1][x + 1]

\* a walled cell: one passable cell
CellMap ==
    [ Width |-> 3, Height |-> 3,
      Grid |-> << <<1, 1, 1>>,
                  <<1, 0, 1>>,
                  <<1, 1, 1>> >> ]

(***************************************************************************)
(* Players (game/player.go) and spawn points (server.findRandomSpawnPoint).*)
(***************************************************************************)
NewPlayer(x, y) ==
    [ Position |-> Vec(x, y), Direction |-> Vec(-100, 0),
      CameraPlane |-> Vec(0, 66), MoveSpeed |-> 500, RotSpeed |-> 300 ]

\* the cells with value 0, as the scan of findRandomSpawnPoint collects them
emptySpaces(m) ==
    { c \in (0..(m.Width - 1)) \X (0..(m.Height - 1)) : m.Grid[c[2] + 1][c[1] + 1] = 0 }

\* every (spawnX, spawnY) findRandomSpawnPoint can return when rand.Float64()
\* draws from rnd: float64(chosen) + 0.2 + rand.Float64()*0.6 on each axis
findRandomSpawnPoint(m, rnd) ==
    IF emptySpaces(m) = {} THEN { Vec(150, 150) }
    ELSE { Vec(c[1] * FP + 20 + FMul(rx, 60), c[2] * FP + 20 + FMul(ry, 60)) :
             c \in emptySpaces(m), rx \in rnd, ry \in rnd }

\* the frame time, pi/6 s, at which RotSpeed * deltaTime is a quarter turn
\* (0.52 in hundredths), and the angle RotSpeed * deltaTime it gives
QuarterTurnDelta == 52
QuarterTurn == 156

\* math.Cos and math.Sin, on the quarter turns
Cos(angle) == CASE Abs(angle) = QuarterTurn -> 0
Sin(angle) == CASE angle = QuarterTurn -> 100 [] angle = -QuarterTurn -> -100

Rotate(v, angle) ==
    Vec(FMul(v.X, Cos(angle)) - FMul(v.Y, Sin(angle)),
        FMul(v.X, Sin(angle)) + FMul(v.Y, Cos(angle)))

\* a slip: the move along Y is made without its wall test
MoveTo_SkipsYTest(p, newPos, m) ==
    LET x1 == IF ~IsWall(m, GoInt(newPos.X), GoInt(p.Position.Y))
              THEN newPos.X ELSE p.Position.X
    IN  [p EXCEPT !.Position = Vec(x1, newPos.Y)]

\* a slip: the Y test looks at the cell of the old X
MoveTo_TestsFromOldX(p, newPos, m) ==
    LET x1 == IF ~IsWall(m, GoInt(newPos.X), GoInt(p.Position.Y))
              THEN newPos.X ELSE p.Position.X
        y1 == IF ~IsWall(m, GoInt(p.Position.X), GoInt(newPos.Y))
              THEN newPos.Y ELSE p.Position.Y
    IN  [p EXCEPT !.Position = Vec(x1, y1)]

\* the two collision tests that end the four moves: X is tested from the
\* old Y, Y from the X that results
MoveTo(p, newPos, m) ==
    LET x1 == IF ~IsWall(m, GoInt(newPos.X), GoInt(p.Position.Y))
              THEN newPos.X ELSE p.Position.X
        y1 == IF ~IsWall(m, GoInt(x1), GoInt(newPos.Y))
              THEN newPos.Y ELSE p.Position.Y
    IN  [p EXCEPT !.Position = Vec(x1, y1)]

MoveForward(p, deltaTime, m) ==
    MoveTo(p, Add(p.Position, Scale(p.Direction, FMul(p.MoveSpeed, deltaTime))), m)

MoveBackward(p, deltaTime, m) ==
    MoveTo(p, Sub(p.Position, Scale(p.Direction, FMul(p.MoveSpeed, deltaTime))), m)

StrafeLeft(p, deltaTime, m) ==
    MoveTo(p, Add(p.Position, Scale(Vec(-p.Direction.Y, p.Direction.X),
                                    FMul(p.MoveSpeed, deltaTime))), m)

StrafeRight(p, deltaTime, m) ==
    MoveTo(p, Add(p.Position, Scale(Vec(p.Direction.Y, -p.Direction.X),
                                    FMul(p.MoveSpeed, deltaTime))), m)

RotateLeft(p, deltaTime) ==
    LET rotSpeed == -FMul(p.RotSpeed, deltaTime)
    IN  [p EXCEPT !.Direction = Rotate(p.Direction, rotSpeed),
                  !.CameraPlane = Rotate(p.CameraPlane, rotSpeed)]

RotateRight(p, deltaTime) ==
    LET rotSpeed == FMul(p.RotSpeed, deltaTime)
    IN  [p EXCEPT !.Direction = Rotate(p.Direction, rotSpeed),
                  !.CameraPlane = Rotate(p.CameraPlane, rotSpeed)]

\* the keys processInput acts on, and what each does to the player
MoveKeys == {"w", "s", "a", "d"}
TurnKeys == {"q", "e"}
FireKey == " "
NoKey == "none"

KeyOnPlayer(p, key, deltaTime, m) ==
    CASE key = "w" -> MoveForward(p, deltaTime, m)
      [] key = "s" -> MoveBackward(p, deltaTime, m)
      [] key = "a" -> StrafeLeft(p, deltaTime, m)
      [] key = "d" -> StrafeRight(p, deltaTime, m)
      [] key = "q" -> RotateRight(p, deltaTime)
      [] key = "e" -> RotateLeft(p, deltaTime)
      [] OTHER -> p

(***************************************************************************)
(* Projectiles (the projectile part of game/player.go).                    *)
(***************************************************************************)
\* math.Sqrt on a fixed-point number of twice the scale
Sqrt(n) == CHOOSE r \in 0..(2 * FP + n \div FP) : r * r <= n /\ (r + 1) * (r + 1) > n

Length(v) == Sqrt(v.X * v.X + v.Y * v.Y)

\* the float64 quotient a/b
FDiv(a, b) == IF (a < 0) = (b < 0) THEN (Abs(a) * FP) \div Abs(b)
              ELSE -((Abs(a) * FP) \div Abs(b))

Normalize(v) ==
    IF Length(v) = 0 THEN Vec(0, 0)
    ELSE Vec(FDiv(v.X, Length(v)), FDiv(v.Y, Length(v)))

\* Speed 8.0 units per second, Life and MaxLife 3.0 seconds
FireballSpeed == 800
FireballLife == 300

NewFireball(startPos, direction) ==
    [ Position |-> startPos, Direction |-> Normalize(direction),
      Speed |-> FireballSpeed, Life |-> FireballLife, MaxLife |-> FireballLife,
      Active |-> TRUE, Type |-> "Fireball" ]

\* a slip: the projectile is moved before the wall test stops it
ProjectileUpdate_MovesThenStops(p, deltaTime, m) ==
    IF ~p.Active THEN p
    ELSE LET life == p.Life - deltaTime
             newPos == Add(p.Position, Scale(p.Direction, FMul(p.Speed, deltaTime)))
         IN  IF life <= 0 THEN [p EXCEPT !.Life = life, !.Active = FALSE]
             ELSE IF IsWall(m, GoInt(newPos.X), GoInt(newPos.Y))
                  THEN [p EXCEPT !.Life = life, !.Position = newPos, !.Active = FALSE]
                  ELSE [p EXCEPT !.Life = life, !.Position = newPos]

\* Projectile.Update
ProjectileUpdate(p, deltaTime, m) ==
    IF ~p.Active THEN p
    ELSE LET life == p.Life - deltaTime
             newPos == Add(p.Position, Scale(p.Direction, FMul(p.Speed, deltaTime)))
         IN  IF life <= 0 THEN [p EXCEPT !.Life = life, !.Active = FALSE]
             ELSE IF IsWall(m, GoInt(newPos.X), GoInt(newPos.Y))
                  THEN [p EXCEPT !.Life = life, !.Active = FALSE]
                  ELSE [p EXCEPT !.Life = life, !.Position = newPos]

\* the elements of a slice
Elems(sl) == { sl[k] : k \in 1..Len(sl) }

\* the second loop of ProjectileManager.Update: the active elements, in order
activeProjectiles(sl, heap) == SelectSeq(sl, LAMBDA q : heap[q].Active)

\* ProjectileManager.Update on slice sl over the objects heap: every element
\* is updated, then the active ones are kept
PMUpdate(sl, heap, deltaTime, m) ==
    LET updated == [q \in DOMAIN heap |->
                      IF q \in Elems(sl) THEN ProjectileUpdate(heap[q], deltaTime, m)
                      ELSE heap[q]]
    IN  [Projectiles |-> activeProjectiles(sl, updated), heap |-> updated]

\* the points, one every 0.1 units and the end point, of the straight path
\* that Projectile.Update's movement covers in one call
PathPoints(p, deltaTime) ==
    LET dist == FMul(p.Speed, deltaTime)
    IN  { Add(p.Position, Scale(p.Direction, d)) :
            d \in { 10 * j : j \in 1..(dist \div 10) } \cup {dist} }

PathEntersWall(p, deltaTime, m) ==
    \E pt \in PathPoints(p, deltaTime) : IsWall(m, GoInt(pt.X), GoInt(pt.Y))

\* the history of a projectile's flight, and what one Update call adds to it
NoFlight == [elapsed |-> 0, crossed |-> FALSE]

Flown(fl, p, deltaTime, m) ==
    IF p.Active
    THEN [elapsed |-> fl.elapsed + deltaTime,
          crossed |-> fl.crossed \/ PathEntersWall(p, deltaTime, m)]
    ELSE fl

(***************************************************************************)
(* NPCs (game/npc.go).                                                     *)
(***************************************************************************)
\* (math.Cos(angle), math.Sin(angle)) for angle = r * 2 * math.Pi, on the
\* draws r (in hundredths of a turn) whose result is exact in hundredths
RandDir(r) ==
    CASE r = 0 -> Vec(100, 0)    [] r = 10 -> Vec(80, 60)    [] r = 15 -> Vec(60, 80)
      [] r = 25 -> Vec(0, 100)   [] r = 35 -> Vec(-60, 80)   [] r = 40 -> Vec(-80, 60)
      [] r = 50 -> Vec(-100, 0)  [] r = 60 -> Vec(-80, -60)  [] r = 65 -> Vec(-60, -80)
      [] r = 75 -> Vec(0, -100)  [] r = 85 -> Vec(60, -80)   [] r = 90 -> Vec(80, -60)

NPCSpeed == 150

\* 2.0 + rand.Float64()*2.0
RandTimer(r) == 200 + FMul(r, 200)

NewNPC(x, y, rAngle, rTimer) ==
    [ Position |-> Vec(x, y), Direction |-> RandDir(rAngle), Speed |-> NPCSpeed,
      MovementTimer |-> RandTimer(rTimer), NPCType |-> "Wanderer" ]

\* a slip: an expired timer gets its new direction but is not reset
NPCUpdateX_KeepsExpiredTimer(npc, deltaTime, m, rAngle, rTimer) ==
    LET timer == npc.MovementTimer - deltaTime
        n1 == IF timer <= 0
              THEN [npc EXCEPT !.Direction = RandDir(rAngle), !.MovementTimer = timer]
              ELSE [npc EXCEPT !.MovementTimer = timer]
        newPos == Add(n1.Position, Scale(n1.Direction, FMul(n1.Speed, deltaTime)))
    IN  IF IsWall(m, GoInt(newPos.X), GoInt(n1.Position.Y))
        THEN [n1 EXCEPT !.Direction.X = -n1.Direction.X, !.MovementTimer = 50]
        ELSE [n1 EXCEPT !.Position.X = newPos.X]

\* NPC.Update up to the end of the X step: the timer, changeDirection when it
\* expired, and the move or bounce along X
NPCUpdateX(npc, deltaTime, m, rAngle, rTimer) ==
    LET timer == npc.MovementTimer - deltaTime
        n1 == IF timer <= 0
              THEN [npc EXCEPT !.Direction = RandDir(rAngle), !.MovementTimer = RandTimer(rTimer)]
              ELSE [npc EXCEPT !.MovementTimer = timer]
        newPos == Add(n1.Position, Scale(n1.Direction, FMul(n1.Speed, deltaTime)))
    IN  IF IsWall(m, GoInt(newPos.X), GoInt(n1.Position.Y))
        THEN [n1 EXCEPT !.Direction.X = -n1.Direction.X, !.MovementTimer = 50]
        ELSE [n1 EXCEPT !.Position.X = newPos.X]

Clamp(lo, hi, v) == IF v < lo THEN lo ELSE IF v > hi THEN hi ELSE v

\* the rest of NPC.Update: the move or bounce along Y (newPos.Y is what the
\* X step computed: neither Position.Y nor Direction.Y changed since), the
\* reflection near the map's edge and the clamp
NPCUpdateY(n1, deltaTime, m) ==
    LET newPosY == n1.Position.Y + FMul(n1.Direction.Y, FMul(n1.Speed, deltaTime))
        n2 == IF IsWall(m, GoInt(n1.Position.X), GoInt(newPosY))
              THEN [n1 EXCEPT !.Direction.Y = -n1.Direction.Y, !.MovementTimer = 50]
              ELSE [n1 EXCEPT !.Position.Y = newPosY]
        maxX == m.Width * FP - 20
        maxY == m.Height * FP - 20
        dx == IF n2.Position.X < 20 \/ n2.Position.X > maxX THEN -n2.Direction.X ELSE n2.Direction.X
        dy == IF n2.Position.Y < 20 \/ n2.Position.Y > maxY THEN -n2.Direction.Y ELSE n2.Direction.Y
    IN  [n2 EXCEPT !.Direction = Vec(dx, dy),
                   !.Position = Vec(Clamp(20, maxX, n2.Position.X), Clamp(20, maxY, n2.Position.Y))]

\* NPC.Update
NPCUpdate(npc, deltaTime, m, rAngle, rTimer) ==
    NPCUpdateY(NPCUpdateX(npc, deltaTime, m, rAngle, rTimer), deltaTime, m)

\* the locals of goroutines that are not inside a call, and an empty observation
IdleTick == [dt |-> 0, hdr |-> <<>>, i |-> 0, active |-> <<>>]
NoLocals == [hdr |-> <<>>, p |-> 0]
NoObs == [inactiveInSet |-> FALSE, partSet |-> FALSE, midNPC |-> FALSE]

Zeros(n) == [k \in 1..n |-> 0]

(***************************************************************************)
(* The session registry (server/server.go, with NPCs: unnamed/part_000).   *)
(***************************************************************************)
NoSession == 0
NoHolder == -1

Registered == { id \in SessionIDs : Players[id] # NoSession }

\* len(gs.Players)
PlayerCount == Cardinality(Registered)

FreeMutex == [w |-> NoHolder, r |-> {}]

\* sync.RWMutex.Lock succeeds when nobody holds the mutex
CanLock(mu) == mu.w = NoHolder /\ mu.r = {}

\* sync.RWMutex.RLock succeeds when no writer holds the mutex
CanRLock(mu) == mu.w = NoHolder

NoResult == [err |-> FALSE, session |-> NoSession, found |-> FALSE]

JoinsInFlight == { t \in Clients : pc[t] \in {"add_lock", "add_check", "add_insert"} }

\* the history while every join so far came from another connection and no
\* leave was served: the ids served and how many of them got a session
CleanHist(ids, ok) == [clean |-> TRUE, ids |-> ids, ok |-> ok]
SpoiltHist == [clean |-> FALSE, ids |-> {}, ok |-> 0]

ServeJoin(h, id, ok) ==
    IF h.clean /\ id \notin h.ids
    THEN CleanHist(h.ids \cup {id}, h.ok + (IF ok THEN 1 ELSE 0))
    ELSE SpoiltHist

\* the connection handler of client t calls AddPlayer(t)
CallAddPlayer(t) ==
    /\ pc[t] = "idle"
    /\ Len(sessions) + Cardinality(JoinsInFlight) < MaxSessions
    /\ pc' = [pc EXCEPT ![t] = "add_lock"]
    /\ UNCHANGED <<viewVars, cfgVars, tickVars, regVars, worldVars, ret, joinHist>>

\* a slip: the check and the insert run without the mutex
AddPlayerLock_Unguarded(t) ==
    /\ pc[t] = "add_lock"
    /\ pc' = [pc EXCEPT ![t] = "add_check"]
    /\ UNCHANGED <<viewVars, cfgVars, tickVars, regVars, worldVars, ret, joinHist>>

\* gs.PlayersMutex.Lock(); defer gs.PlayersMutex.Unlock()
AddPlayerLock(t) ==
    /\ pc[t] = "add_lock"
    /\ CanLock(PlayersMutex)
    /\ PlayersMutex' = [PlayersMutex EXCEPT !.w = t]
    /\ pc' = [pc EXCEPT ![t] = "add_check"]
    /\ UNCHANGED <<viewVars, cfgVars, tickVars, Players, sessions, worldVars, ret, joinHist>>

\* the capacity check, with the comparison as a parameter
AddPlayerCheckWith(t, full) ==
    /\ pc[t] = "add_check"
    /\ joinHist' = ServeJoin(joinHist, t, ~full)
    /\ IF full
       THEN /\ ret' = [ret EXCEPT ![t] = [err |-> TRUE, session |-> NoSession, found |-> FALSE]]
            /\ pc' = [pc EXCEPT ![t] = "add_unlock"]
       ELSE /\ ret' = ret
            /\ pc' = [pc EXCEPT ![t] = "add_insert"]
    /\ UNCHANGED <<viewVars, cfgVars, tickVars, regVars, worldVars>>

\* a slip: > where the code has >=
AddPlayerCheck_OffByOne(t) == AddPlayerCheckWith(t, PlayerCount > MaxPlayers)

\* a slip: the session is registered before the capacity is checked
AddPlayerCheck_InsertFirst(t) ==
    /\ pc[t] = "add_check"
    /\ joinHist' = ServeJoin(joinHist, t, PlayerCount < MaxPlayers)
    /\ \E sp \in findRandomSpawnPoint(Map, randDraws) :
         sessions' = Append(sessions, [ID |-> t, Player |-> NewPlayer(sp.X, sp.Y), Connected |-> TRUE])
    /\ Players' = [Players EXCEPT ![t] = Len(sessions) + 1]
    /\ IF PlayerCount >= MaxPlayers
       THEN ret' = [ret EXCEPT ![t] = [err |-> TRUE, session |-> NoSession, found |-> FALSE]]
       ELSE ret' = [ret EXCEPT ![t] = [err |-> FALSE, session |-> Len(sessions) + 1, found |-> FALSE]]
    /\ pc' = [pc EXCEPT ![t] = "add_unlock"]
    /\ UNCHANGED <<viewVars, cfgVars, tickVars, PlayersMutex, worldVars>>

\* if len(gs.Players) >= gs.MaxPlayers { return nil, error }
AddPlayerCheck(t) == AddPlayerCheckWith(t, PlayerCount >= MaxPlayers)

\* a slip: a join with a known id takes the removed session object back
AddPlayerInsert_RevivesOld(t) ==
    /\ pc[t] = "add_insert"
    /\ IF \E i \in 1..Len(sessions) : sessions[i].ID = t /\ ~sessions[i].Connected
       THEN \E i \in 1..Len(sessions) :
              /\ sessions[i].ID = t /\ ~sessions[i].Connected
              /\ sessions' = [sessions EXCEPT ![i].Connected = TRUE]
              /\ Players' = [Players EXCEPT ![t] = i]
              /\ ret' = [ret EXCEPT ![t] = [err |-> FALSE, session |-> i, found |-> FALSE]]
       ELSE /\ \E sp \in findRandomSpawnPoint(Map, randDraws) :
                 sessions' = Append(sessions, [ID |-> t, Player |-> NewPlayer(sp.X, sp.Y), Connected |-> TRUE])
            /\ Players' = [Players EXCEPT ![t] = Len(sessions) + 1]
            /\ ret' = [ret EXCEPT ![t] = [err |-> FALSE, session |-> Len(sessions) + 1, found |-> FALSE]]
    /\ pc' = [pc EXCEPT ![t] = "add_unlock"]
    /\ UNCHANGED <<viewVars, cfgVars, tickVars, PlayersMutex, worldVars, joinHist>>

\* the spawn point, the new Player and session, gs.Players[sessionID] = session
AddPlayerInsert(t) ==
    /\ pc[t] = "add_insert"
    /\ \E sp \in findRandomSpawnPoint(Map, randDraws) :
         sessions' = Append(sessions, [ID |-> t, Player |-> NewPlayer(sp.X, sp.Y), Connected |-> TRUE])
    /\ Players' = [Players EXCEPT ![t] = Len(sessions) + 1]
    /\ ret' = [ret EXCEPT ![t] = [err |-> FALSE, session |-> Len(sessions) + 1, found |-> FALSE]]
    /\ pc' = [pc EXCEPT ![t] = "add_unlock"]
    /\ UNCHANGED <<viewVars, cfgVars, tickVars, PlayersMutex, worldVars, joinHist>>

\* the deferred Unlock, and the return to the caller
AddPlayerUnlock(t) ==
    /\ pc[t] = "add_unlock"
    /\ PlayersMutex' = [PlayersMutex EXCEPT !.w = NoHolder]
    /\ pc' = [pc EXCEPT ![t] = "idle"]
    /\ ret' = [ret EXCEPT ![t] = NoResult]
    /\ UNCHANGED <<viewVars, cfgVars, tickVars, Players, sessions, worldVars, joinHist>>

\* the connection handler of client t calls RemovePlayer(t)
CallRemovePlayer(t) ==
    /\ pc[t] = "idle"
    /\ pc' = [pc EXCEPT ![t] = "rem_lock"]
    /\ UNCHANGED <<viewVars, cfgVars, tickVars, regVars, worldVars, ret, joinHist>>

RemovePlayerLock(t) ==
    /\ pc[t] = "rem_lock"
    /\ CanLock(PlayersMutex)
    /\ PlayersMutex' = [PlayersMutex EXCEPT !.w = t]
    /\ pc' = [pc EXCEPT ![t] = "rem_body"]
    /\ UNCHANGED <<viewVars, cfgVars, tickVars, Players, sessions, worldVars, ret, joinHist>>

\* a slip: the session is marked but stays in the map
removeSession_KeepsEntry(P, S, id) ==
    IF P[id] # NoSession
    THEN <<P, [S EXCEPT ![P[id]].Connected = FALSE]>>
    ELSE <<P, S>>

\* if session, exists := gs.Players[id]; exists { session.Connected = false; delete(...) }
removeSession(P, S, id) ==
    IF P[id] # NoSession
    THEN <<[P EXCEPT ![id] = NoSession], [S EXCEPT ![P[id]].Connected = FALSE]>>
    ELSE <<P, S>>

RemovePlayerBody(t) ==
    /\ pc[t] = "rem_body"
    /\ Players' = removeSession(Players, sessions, t)[1]
    /\ sessions' = removeSession(Players, sessions, t)[2]
    /\ ret' = [ret EXCEPT ![t] = [err |-> FALSE, session |-> Players[t],
                                  found |-> Players[t] # NoSession]]
    /\ joinHist' = SpoiltHist
    /\ pc' = [pc EXCEPT ![t] = "rem_unlock"]
    /\ UNCHANGED <<viewVars, cfgVars, tickVars, PlayersMutex, worldVars>>

RemovePlayerUnlock(t) ==
    /\ pc[t] = "rem_unlock"
    /\ PlayersMutex' = [PlayersMutex EXCEPT !.w = NoHolder]
    /\ pc' = [pc EXCEPT ![t] = "idle"]
    /\ ret' = [ret EXCEPT ![t] = NoResult]
    /\ UNCHANGED <<viewVars, cfgVars, tickVars, Players, sessions, worldVars, joinHist>>

(***************************************************************************)
(* SpecReg: the connection handlers join and leave concurrently.           *)
(***************************************************************************)
InitReg ==
    /\ Map = CellMap
    /\ randDraws = {50}
    /\ Players = [id \in SessionIDs |-> NoSession]
    /\ sessions = <<>>
    /\ PlayersMutex = FreeMutex
    /\ Projectiles = <<>>
    /\ projHeap = <<>>
    /\ NPCs = <<>>
    /\ NPCsMutex = FreeMutex
    /\ pc = [t \in Goroutines |-> "idle"]
    /\ ret = [t \in Goroutines |-> NoResult]
    /\ joinHist = CleanHist({}, 0)
    /\ tick = IdleTick
    /\ loc = [t \in Clients |-> NoLocals]
    /\ obs = [t \in Clients |-> NoObs]
    /\ updCount = <<>>
    /\ npcCount = <<>>
    /\ nTicks = 0
    /\ flight = <<>>
    /\ nCalls = 0
    /\ NoView

NextReg ==
    \E t \in Clients :
        \/ CallAddPlayer(t)
        \/ AddPlayerLock(t)
        \/ AddPlayerCheck(t)
        \/ AddPlayerInsert(t)
        \/ AddPlayerUnlock(t)
        \/ CallRemovePlayer(t)
        \/ RemovePlayerLock(t)
        \/ RemovePlayerBody(t)
        \/ RemovePlayerUnlock(t)

SpecReg == InitReg /\ [][NextReg]_vars

(***************************************************************************)
(* The world tick, GameServer.Update, step by step, and what the session   *)
(* goroutines do to the shared collections meanwhile.  The projectile      *)
(* slice has no mutex: each read and each write of pm.Projectiles is a     *)
(* step of its own.                                                        *)
(***************************************************************************)
\* the deltaTime of a world tick here: 0.1 s
TickDeltas == {10}

\* the tick loop calls gs.Update(deltaTime); ProjectileManager.Update
\* evaluates its first range expression
UpdateBegin(dt) ==
    /\ pc[TickLoop] = "idle"
    /\ nTicks < MaxTicks
    /\ pc' = [pc EXCEPT ![TickLoop] = "pm_update"]
    /\ tick' = [dt |-> dt, hdr |-> Projectiles, i |-> 1, active |-> <<>>]
    /\ updCount' = Zeros(Len(projHeap))
    /\ npcCount' = Zeros(Len(NPCs))
    /\ nTicks' = nTicks + 1
    /\ UNCHANGED <<viewVars, cfgVars, regVars, worldVars, ret, joinHist, loc, obs, flight, nCalls>>

\* a slip: the loop stops one element early
RangeDone_SkipsLast(i, sl) == i >= Len(sl)

\* the end of a range loop over slice sl at index i
RangeDone(i, sl) == i > Len(sl)

\* one iteration of for _, p := range pm.Projectiles { p.Update(...) }
PMUpdateProjectile ==
    /\ pc[TickLoop] = "pm_update"
    /\ ~RangeDone(tick.i, tick.hdr)
    /\ projHeap' = [projHeap EXCEPT ![tick.hdr[tick.i]] = ProjectileUpdate(@, tick.dt, Map)]
    /\ updCount' = [updCount EXCEPT ![tick.hdr[tick.i]] = @ + 1]
    /\ flight' = [flight EXCEPT ![tick.hdr[tick.i]] =
                    Flown(@, projHeap[tick.hdr[tick.i]], tick.dt, Map)]
    /\ tick' = [tick EXCEPT !.i = @ + 1]
    /\ UNCHANGED <<viewVars, cfgVars, regVars, Projectiles, NPCs, NPCsMutex, pc, ret, joinHist,
                   loc, obs, npcCount, nTicks, nCalls>>

\* the second loop: it reads pm.Projectiles again and collects the active ones
PMFilter ==
    /\ pc[TickLoop] = "pm_update"
    /\ RangeDone(tick.i, tick.hdr)
    /\ tick' = [tick EXCEPT !.active = activeProjectiles(Projectiles, projHeap)]
    /\ pc' = [pc EXCEPT ![TickLoop] = "pm_assign"]
    /\ UNCHANGED <<viewVars, cfgVars, regVars, worldVars, ret, joinHist, loc, obs, updCount, npcCount, nTicks, flight, nCalls>>

\* pm.Projectiles = activeProjectiles
PMAssign ==
    /\ pc[TickLoop] = "pm_assign"
    /\ Projectiles' = tick.active
    /\ pc' = [pc EXCEPT ![TickLoop] = "npc_rlock"]
    /\ UNCHANGED <<viewVars, cfgVars, regVars, projHeap, NPCs, NPCsMutex, ret, joinHist, tickVars>>

\* updateNPCs: gs.NPCsMutex.RLock()
updateNPCsRLock ==
    /\ pc[TickLoop] = "npc_rlock"
    /\ CanRLock(NPCsMutex)
    /\ NPCsMutex' = [NPCsMutex EXCEPT !.r = @ \cup {TickLoop}]
    /\ tick' = [tick EXCEPT !.i = 1]
    /\ pc' = [pc EXCEPT ![TickLoop] = "npc_x"]
    /\ UNCHANGED <<viewVars, cfgVars, regVars, Projectiles, projHeap, NPCs, ret, joinHist,
                   loc, obs, updCount, npcCount, nTicks, flight, nCalls>>

\* npc.Update is entered for the next NPC and runs to the end of its X step
NPCStepX ==
    /\ pc[TickLoop] = "npc_x"
    /\ ~RangeDone(tick.i, NPCs)
    /\ \E rAngle \in randDraws, rTimer \in randDraws :
         NPCs' = [NPCs EXCEPT ![tick.i] = NPCUpdateX(@, tick.dt, Map, rAngle, rTimer)]
    /\ npcCount' = [npcCount EXCEPT ![tick.i] = @ + 1]
    /\ pc' = [pc EXCEPT ![TickLoop] = "npc_y"]
    /\ UNCHANGED <<viewVars, cfgVars, regVars, Projectiles, projHeap, NPCsMutex, ret, joinHist,
                   tick, loc, obs, updCount, nTicks, flight, nCalls>>

\* npc.Update runs to its end
NPCStepY ==
    /\ pc[TickLoop] = "npc_y"
    /\ NPCs' = [NPCs EXCEPT ![tick.i] = NPCUpdateY(@, tick.dt, Map)]
    /\ tick' = [tick EXCEPT !.i = @ + 1]
    /\ pc' = [pc EXCEPT ![TickLoop] = "npc_x"]
    /\ UNCHANGED <<viewVars, cfgVars, regVars, Projectiles, projHeap, NPCsMutex, ret, joinHist,
                   loc, obs, updCount, npcCount, nTicks, flight, nCalls>>

\* the deferred gs.NPCsMutex.RUnlock()
updateNPCsRUnlock ==
    /\ pc[TickLoop] = "npc_x"
    /\ RangeDone(tick.i, NPCs)
    /\ NPCsMutex' = [NPCsMutex EXCEPT !.r = @ \ {TickLoop}]
    /\ pc' = [pc EXCEPT ![TickLoop] = "upd_return"]
    /\ UNCHANGED <<viewVars, cfgVars, regVars, Projectiles, projHeap, NPCs, ret, joinHist, tickVars>>

\* gs.Update returns to the tick loop
UpdateReturn ==
    /\ pc[TickLoop] = "upd_return"
    /\ pc' = [pc EXCEPT ![TickLoop] = "idle"]
    /\ tick' = IdleTick
    /\ updCount' = Zeros(Len(projHeap))
    /\ npcCount' = Zeros(Len(NPCs))
    /\ UNCHANGED <<viewVars, cfgVars, regVars, worldVars, ret, joinHist, loc, obs, nTicks, flight, nCalls>>

\* the Player of the session registered for connection t
PlayerOf(t) == sessions[Players[t]].Player

\* the fire key: NewFireball(player.Position, player.Direction), and
\* AddProjectile reads pm.Projectiles for its append
FireRead(t) ==
    /\ pc[t] = "idle"
    /\ t \in Registered
    /\ Len(projHeap) < MaxProjectiles
    /\ projHeap' = Append(projHeap, NewFireball(PlayerOf(t).Position, PlayerOf(t).Direction))
    /\ updCount' = Append(updCount, 0)
    /\ flight' = Append(flight, NoFlight)
    /\ loc' = [loc EXCEPT ![t] = [hdr |-> Projectiles, p |-> Len(projHeap) + 1]]
    /\ pc' = [pc EXCEPT ![t] = "add_write"]
    /\ UNCHANGED <<viewVars, cfgVars, regVars, Projectiles, NPCs, NPCsMutex, ret, joinHist,
                   tick, obs, npcCount, nTicks, nCalls>>

\* AddProjectile stores the appended slice: pm.Projectiles = append(...)
FireWrite(t) ==
    /\ pc[t] = "add_write"
    /\ Projectiles' = Append(loc[t].hdr, loc[t].p)
    /\ loc' = [loc EXCEPT ![t] = NoLocals]
    /\ pc' = [pc EXCEPT ![t] = "idle"]
    /\ UNCHANGED <<viewVars, cfgVars, regVars, projHeap, NPCs, NPCsMutex, ret, joinHist,
                   tick, obs, updCount, npcCount, nTicks, flight, nCalls>>

\* GetDebugInfo walks gs.ProjectileManager.Projectiles without any lock
GetDebugInfo(t) ==
    /\ pc[t] = "idle"
    /\ t \in Registered
    /\ obs' = [obs EXCEPT ![t] =
                 [ inactiveInSet |-> \E q \in Elems(Projectiles) : ~projHeap[q].Active,
                   partSet |-> /\ pc[TickLoop] = "pm_update"
                               /\ 1 < tick.i /\ tick.i <= Len(tick.hdr),
                   midNPC |-> FALSE ]]
    /\ pc' = [pc EXCEPT ![t] = "read_done"]
    /\ UNCHANGED <<viewVars, cfgVars, regVars, worldVars, ret, joinHist, tick, loc, updCount, npcCount, nTicks, flight, nCalls>>

\* GetNPCs: gs.NPCsMutex.RLock()
GetNPCsRLock(t) ==
    /\ pc[t] = "idle"
    /\ t \in Registered
    /\ CanRLock(NPCsMutex)
    /\ NPCsMutex' = [NPCsMutex EXCEPT !.r = @ \cup {t}]
    /\ pc' = [pc EXCEPT ![t] = "npcs_copy"]
    /\ UNCHANGED <<viewVars, cfgVars, regVars, Projectiles, projHeap, NPCs, ret, joinHist, tickVars>>

\* GetNPCs copies the slice of NPC pointers, unlocks and returns it
GetNPCsCopy(t) ==
    /\ pc[t] = "npcs_copy"
    /\ NPCsMutex' = [NPCsMutex EXCEPT !.r = @ \ {t}]
    /\ obs' = [obs EXCEPT ![t] =
                 [ inactiveInSet |-> FALSE, partSet |-> FALSE,
                   midNPC |-> pc[TickLoop] = "npc_y" ]]
    /\ pc' = [pc EXCEPT ![t] = "read_done"]
    /\ UNCHANGED <<viewVars, cfgVars, regVars, Projectiles, projHeap, NPCs, ret, joinHist,
                   tick, loc, updCount, npcCount, nTicks, flight, nCalls>>

\* the session has used what it read
ReadDone(t) ==
    /\ pc[t] = "read_done"
    /\ obs' = [obs EXCEPT ![t] = NoObs]
    /\ pc' = [pc EXCEPT ![t] = "idle"]
    /\ UNCHANGED <<viewVars, cfgVars, regVars, worldVars, ret, joinHist, tick, loc, updCount, npcCount, nTicks, flight, nCalls>>

(***************************************************************************)
(* SpecTick: the world tick runs while two connected sessions fire and     *)
(* read.                                                                   *)
(***************************************************************************)
\* a room around a pillar
PillarMap ==
    [ Width |-> 5, Height |-> 5,
      Grid |-> << <<1, 1, 1, 1, 1>>,
                  <<1, 0, 0, 0, 1>>,
                  <<1, 0, 2, 0, 1>>,
                  <<1, 0, 0, 0, 1>>,
                  <<1, 1, 1, 1, 1>> >> ]

\* NewGameServer followed by two joins: three NPCs where spawnNPCs can put
\* them, and the sessions of connections 1 and 2
InitTick ==
    /\ Map = PillarMap
    /\ randDraws = {50}
    /\ sessions = << [ID |-> 1, Player |-> NewPlayer(150, 150), Connected |-> TRUE],
                     [ID |-> 2, Player |-> NewPlayer(350, 350), Connected |-> TRUE] >>
    /\ Players = [id \in SessionIDs |-> IF id <= 2 THEN id ELSE NoSession]
    /\ PlayersMutex = FreeMutex
    /\ Projectiles = <<>>
    /\ projHeap = <<>>
    /\ NPCs = << NewNPC(150, 250, 0, 0), NewNPC(350, 150, 25, 50), NewNPC(250, 350, 65, 50) >>
    /\ NPCsMutex = FreeMutex
    /\ pc = [t \in Goroutines |-> "idle"]
    /\ ret = [t \in Goroutines |-> NoResult]
    /\ joinHist = SpoiltHist
    /\ tick = IdleTick
    /\ loc = [t \in Clients |-> NoLocals]
    /\ obs = [t \in Clients |-> NoObs]
    /\ updCount = <<>>
    /\ npcCount = Zeros(3)
    /\ nTicks = 0
    /\ flight = <<>>
    /\ nCalls = 0
    /\ NoView

NextTick ==
    \/ \E dt \in TickDeltas : UpdateBegin(dt)
    \/ PMUpdateProjectile
    \/ PMFilter
    \/ PMAssign
    \/ updateNPCsRLock
    \/ NPCStepX
    \/ NPCStepY
    \/ updateNPCsRUnlock
    \/ UpdateReturn
    \/ \E t \in Clients :
        \/ FireRead(t)
        \/ FireWrite(t)
        \/ GetDebugInfo(t)
        \/ GetNPCsRLock(t)
        \/ GetNPCsCopy(t)
        \/ ReadDone(t)

SpecTick == InitTick /\ [][NextTick]_vars

(***************************************************************************)
(* SpecLocal: the single-player game loop of main.go.  One frame handles   *)
(* the key that is waiting, if any, then updates the projectiles, then     *)
(* renders; nothing else runs meanwhile.  The local player is kept as      *)
(* session 1.                                                              *)
(***************************************************************************)
\* a room cut in two by a wall one cell thick, with a gate on its right
GateMap ==
    [ Width |-> 4, Height |-> 5,
      Grid |-> << <<1, 1, 1, 1>>,
                  <<1, 0, 0, 1>>,
                  <<1, 3, 0, 1>>,
                  <<1, 0, 0, 1>>,
                  <<1, 1, 1, 1>> >> ]

\* the deltaTime of a frame: 0.1 s, 0.2 s, the quarter-turn time and 3 s
FrameDeltas == {10, 20, QuarterTurnDelta, 300}

\* a turn key is handled in the frames whose deltaTime the Cos and Sin
\* tables cover
KeyFits(key, dt) == key \in TurnKeys => dt = QuarterTurnDelta

\* processInput's fire case on the set sl and objects heap
FireOn(sl, heap, p) ==
    [ Projectiles |-> Append(sl, Len(heap) + 1),
      heap |-> Append(heap, NewFireball(p.Position, p.Direction)) ]

LocalFrame(dt, key) ==
    /\ nTicks < MaxFrames
    /\ KeyFits(key, dt)
    /\ key = FireKey => Len(projHeap) < MaxProjectiles
    /\ LET player == KeyOnPlayer(sessions[1].Player, key, dt, Map)
           fired == IF key = FireKey THEN FireOn(Projectiles, projHeap, player)
                    ELSE [Projectiles |-> Projectiles, heap |-> projHeap]
           fl == IF key = FireKey THEN Append(flight, NoFlight) ELSE flight
           upd == PMUpdate(fired.Projectiles, fired.heap, dt, Map)
       IN  /\ sessions' = [sessions EXCEPT ![1].Player = player]
           /\ projHeap' = upd.heap
           /\ Projectiles' = upd.Projectiles
           /\ flight' = [q \in DOMAIN fl |->
                           IF q \in Elems(fired.Projectiles)
                           THEN Flown(fl[q], fired.heap[q], dt, Map) ELSE fl[q]]
    /\ nTicks' = nTicks + 1
    /\ nCalls' = nCalls
    /\ UNCHANGED <<viewVars, cfgVars, Players, PlayersMutex, NPCs, NPCsMutex, pc, ret, joinHist,
                   tick, loc, obs, updCount, npcCount>>

InitLocal ==
    /\ Map = GateMap
    /\ randDraws = {50}
    /\ sessions = << [ID |-> 1, Player |-> NewPlayer(150, 150), Connected |-> TRUE] >>
    /\ Players = [id \in SessionIDs |-> IF id = 1 THEN 1 ELSE NoSession]
    /\ PlayersMutex = FreeMutex
    /\ Projectiles = <<>>
    /\ projHeap = <<>>
    /\ NPCs = <<>>
    /\ NPCsMutex = FreeMutex
    /\ pc = [t \in Goroutines |-> "idle"]
    /\ ret = [t \in Goroutines |-> NoResult]
    /\ joinHist = SpoiltHist
    /\ tick = IdleTick
    /\ loc = [t \in Clients |-> NoLocals]
    /\ obs = [t \in Clients |-> NoObs]
    /\ updCount = <<>>
    /\ npcCount = <<>>
    /\ nTicks = 0
    /\ flight = <<>>
    /\ nCalls = 0
    /\ NoView

NextLocal ==
    \E dt \in FrameDeltas, key \in MoveKeys \cup TurnKeys \cup {FireKey, NoKey} :
        LocalFrame(dt, key)

SpecLocal == InitLocal /\ [][NextLocal]_vars

(***************************************************************************)
(* Spec: the whole server, one call at a time.  Connections join and       *)
(* leave, the tick loop calls Update, and each registered session handles  *)
(* a key and renders its frame.                                            *)
(***************************************************************************)
\* the NPCs spawnNPCs can create on map m
SpawnedNPCs(m, rnd) ==
    { NewNPC(sp.X, sp.Y, rAngle, rTimer) :
        sp \in findRandomSpawnPoint(m, rnd), rAngle \in rnd, rTimer \in rnd }

\* npcCount of spawnNPCs
SpawnCount(m) == IF m.Width > 15 \/ m.Height > 15 THEN 5 ELSE 3

\* AddPlayer, from Lock to Unlock; the result goes to the connection
\* handler, which keeps nothing of it
Join(t) ==
    /\ nCalls < MaxCalls
    /\ Len(sessions) < MaxSessions
    /\ IF PlayerCount >= MaxPlayers
       THEN UNCHANGED <<Players, sessions>>
       ELSE /\ \E sp \in findRandomSpawnPoint(Map, randDraws) :
                 sessions' = Append(sessions, [ID |-> t, Player |-> NewPlayer(sp.X, sp.Y),
                                               Connected |-> TRUE])
            /\ Players' = [Players EXCEPT ![t] = Len(sessions) + 1]
    /\ nCalls' = nCalls + 1
    /\ UNCHANGED <<viewVars, cfgVars, PlayersMutex, worldVars, pc, ret, joinHist,
                   tick, loc, obs, updCount, npcCount, nTicks, flight>>

\* RemovePlayer, from Lock to Unlock
Leave(t) ==
    /\ nCalls < MaxCalls
    /\ Players' = removeSession(Players, sessions, t)[1]
    /\ sessions' = removeSession(Players, sessions, t)[2]
    /\ nCalls' = nCalls + 1
    /\ UNCHANGED <<viewVars, cfgVars, PlayersMutex, worldVars, pc, ret, joinHist,
                   tick, loc, obs, updCount, npcCount, nTicks, flight>>

\* a slip: a projectile that runs into a wall cell clears it
WorldTick_BurnsWall(dt) ==
    /\ nCalls < MaxCalls
    /\ nTicks < MaxTicks
    /\ projHeap' = PMUpdate(Projectiles, projHeap, dt, Map).heap
    /\ Projectiles' = PMUpdate(Projectiles, projHeap, dt, Map).Projectiles
    /\ Map' = [Map EXCEPT !.Grid =
                 [y \in 1..Map.Height |-> [x \in 1..Map.Width |->
                    IF \E q \in Elems(Projectiles) :
                          /\ projHeap[q].Active
                          /\ \E pt \in PathPoints(projHeap[q], dt) :
                                GoInt(pt.X) = x - 1 /\ GoInt(pt.Y) = y - 1
                    THEN 0 ELSE Map.Grid[y][x]]]]
    /\ nTicks' = nTicks + 1
    /\ nCalls' = nCalls + 1
    /\ UNCHANGED <<viewVars, randDraws, regVars, NPCs, NPCsMutex, pc, ret, joinHist,
                   tick, loc, obs, updCount, npcCount, flight>>

\* GameServer.Update: ProjectileManager.Update, then updateNPCs
WorldTick(dt) ==
    /\ nCalls < MaxCalls
    /\ nTicks < MaxTicks
    /\ projHeap' = PMUpdate(Projectiles, projHeap, dt, Map).heap
    /\ Projectiles' = PMUpdate(Projectiles, projHeap, dt, Map).Projectiles
    /\ flight' = [q \in DOMAIN flight |->
                    IF q \in Elems(Projectiles) THEN Flown(flight[q], projHeap[q], dt, Map)
                    ELSE flight[q]]
    /\ \E rAngle \in randDraws, rTimer \in randDraws :
         NPCs' = [k \in DOMAIN NPCs |-> NPCUpdate(NPCs[k], dt, Map, rAngle, rTimer)]
    /\ nTicks' = nTicks + 1
    /\ nCalls' = nCalls + 1
    /\ UNCHANGED <<viewVars, cfgVars, regVars, NPCsMutex, pc, ret, joinHist,
                   tick, loc, obs, updCount, npcCount>>

\* one frame of the session of connection t: processInput on its key, then
\* the render, which reads the Map, the players, the projectiles and the
\* NPCs and writes only the session's own Screen
SessionFrame(t, dt, key) ==
    /\ t \in Registered
    /\ nCalls < MaxCalls
    /\ KeyFits(key, dt)
    /\ key = FireKey => Len(projHeap) < MaxProjectiles
    /\ LET player == KeyOnPlayer(PlayerOf(t), key, dt, Map)
           fired == IF key = FireKey THEN FireOn(Projectiles, projHeap, player)
                    ELSE [Projectiles |-> Projectiles, heap |-> projHeap]
       IN  /\ sessions' = [sessions EXCEPT ![Players[t]].Player = player]
           /\ projHeap' = fired.heap
           /\ Projectiles' = fired.Projectiles
           /\ flight' = IF key = FireKey THEN Append(flight, NoFlight) ELSE flight
    /\ nCalls' = nCalls + 1
    /\ UNCHANGED <<viewVars, cfgVars, Players, PlayersMutex, NPCs, NPCsMutex, pc, ret, joinHist,
                   tick, loc, obs, updCount, npcCount, nTicks>>

\* NewGameServer on the walled cell
Init ==
    /\ Map = CellMap
    /\ randDraws = {50}
    /\ Players = [id \in SessionIDs |-> NoSession]
    /\ sessions = <<>>
    /\ PlayersMutex = FreeMutex
    /\ Projectiles = <<>>
    /\ projHeap = <<>>
    /\ NPCs \in [1..SpawnCount(Map) -> SpawnedNPCs(Map, randDraws)]
    /\ NPCsMutex = FreeMutex
    /\ pc = [t \in Goroutines |-> "idle"]
    /\ ret = [t \in Goroutines |-> NoResult]
    /\ joinHist = SpoiltHist
    /\ tick = IdleTick
    /\ loc = [t \in Clients |-> NoLocals]
    /\ obs = [t \in Clients |-> NoObs]
    /\ updCount = <<>>
    /\ npcCount = <<>>
    /\ nTicks = 0
    /\ flight = <<>>
    /\ nCalls = 0
    /\ NoView

\* the deltaTime of the frame in which a session handles key: the
\* quarter-turn time for a turn, 0.1 s otherwise
KeyDelta(key) == IF key \in TurnKeys THEN QuarterTurnDelta ELSE 10

Next ==
    \/ \E t \in Clients : Join(t)
    \/ \E t \in Clients : Leave(t)
    \/ \E dt \in TickDeltas : WorldTick(dt)
    \/ \E t \in Clients, key \in MoveKeys \cup TurnKeys \cup {FireKey} :
         SessionFrame(t, KeyDelta(key), key)

Spec == Init /\ [][Next]_vars

(***************************************************************************)
(* The Map queries on their own (game/world.go): a map as LoadMapFromFile  *)
(* or NewMap builds it, rectangular and with at least one cell, queried at *)
(* integer coordinates inside the grid and up to ProbeMargin cells outside *)
(* it on every side.                                                       *)
(***************************************************************************)
\* how far outside the grid a coordinate is queried
ProbeMargin == 2

\* the values of a cell in the maps drawn: passable, and two wall types
CellValues == {0, 1, 2}

\* the grids of the shapes 2x2, 3x1 and 1x3 over CellValues, and the maps of
\* the other runs
LoadedMaps ==
    { [Width |-> 2, Height |-> 2, Grid |-> g] : g \in [1..2 -> [1..2 -> CellValues]] }
    \cup { [Width |-> 3, Height |-> 1, Grid |-> g] : g \in [1..1 -> [1..3 -> CellValues]] }
    \cup { [Width |-> 1, Height |-> 3, Grid |-> g] : g \in [1..3 -> [1..1 -> CellValues]] }
    \cup {CellMap, PillarMap, GateMap}

\* a server with no session, no projectile and no NPC, and nothing running
QuietWorld ==
    /\ Players = [id \in SessionIDs |-> NoSession]
    /\ sessions = <<>>
    /\ PlayersMutex = FreeMutex
    /\ Projectiles = <<>>
    /\ projHeap = <<>>
    /\ NPCs = <<>>
    /\ NPCsMutex = FreeMutex
    /\ pc = [t \in Goroutines |-> "idle"]
    /\ ret = [t \in Goroutines |-> NoResult]
    /\ joinHist = CleanHist({}, 0)
    /\ tick = IdleTick
    /\ loc = [t \in Clients |-> NoLocals]
    /\ obs = [t \in Clients |-> NoObs]
    /\ updCount = <<>>
    /\ npcCount = <<>>
    /\ nTicks = 0
    /\ flight = <<>>
    /\ nCalls = 0

\* one call of IsWall and one of GetWallType at the same coordinate
MapQuery(x, y) ==
    /\ probe' = [ x |-> x, y |-> y,
                  IsWall |-> IsWall(Map, x, y),
                  GetWallType |-> GetWallType(Map, x, y) ]
    /\ UNCHANGED <<cfgVars, regVars, worldVars, pc, ret, joinHist, tickVars,
                   drawVars, inputVars>>

InitMap ==
    /\ Map \in LoadedMaps
    /\ randDraws = {}
    /\ QuietWorld
    /\ NoView

NextMap ==
    \E x \in (0 - ProbeMargin)..(Map.Width + ProbeMargin - 1) :
        \E y \in (0 - ProbeMargin)..(Map.Height + ProbeMargin - 1) :
            MapQuery(x, y)

SpecMap == InitMap /\ [][NextMap]_vars

(***************************************************************************)
(* The wandering agents on their own (game/npc.go): NewGameServer spawns   *)
(* the NPCs of a map, and every tick updates each of them once.            *)
(***************************************************************************)
\* the maps the agents are checked on: every drawn map with at most three
\* passable cells and walls of type 1, the maps without a passable cell and
\* the maps with passable cells on their edge among them
AgentMaps ==
    { m \in LoadedMaps :
        /\ Cardinality(emptySpaces(m)) <= 3
        /\ \A y \in 1..m.Height : \A x \in 1..m.Width : m.Grid[y][x] \in {0, 1} }

\* what rand.Float64() returns in a run: 0.0, 0.1 or 0.5 at every call
AgentDraws == {{0}, {10}, {50}}

\* the deltaTime of a tick: 0.1 s, 1 s, and 3 s, which no timer outlasts
AgentDeltas == {10, 100, 300}

\* updateNPCs: one Update of every NPC, in slice order
AgentTick(dt) ==
    /\ nTicks < MaxTicks
    /\ \E rAngle \in randDraws, rTimer \in randDraws :
         NPCs' = [k \in DOMAIN NPCs |-> NPCUpdate(NPCs[k], dt, Map, rAngle, rTimer)]
    /\ nTicks' = nTicks + 1
    /\ UNCHANGED <<viewVars, cfgVars, regVars, Projectiles, projHeap, NPCsMutex, pc, ret,
                   joinHist, tick, loc, obs, updCount, npcCount, flight, nCalls>>

\* NewGameServer: spawnNPCs on the map given
InitNPC ==
    /\ Map \in AgentMaps
    /\ randDraws \in AgentDraws
    /\ Players = [id \in SessionIDs |-> NoSession]
    /\ sessions = <<>>
    /\ PlayersMutex = FreeMutex
    /\ Projectiles = <<>>
    /\ projHeap = <<>>
    /\ NPCs \in [1..SpawnCount(Map) -> SpawnedNPCs(Map, randDraws)]
    /\ NPCsMutex = FreeMutex
    /\ pc = [t \in Goroutines |-> "idle"]
    /\ ret = [t \in Goroutines |-> NoResult]
    /\ joinHist = CleanHist({}, 0)
    /\ tick = IdleTick
    /\ loc = [t \in Clients |-> NoLocals]
    /\ obs = [t \in Clients |-> NoObs]
    /\ updCount = <<>>
    /\ npcCount = <<>>
    /\ nTicks = 0
    /\ flight = <<>>
    /\ nCalls = 0
    /\ NoView

NextNPC == \E dt \in AgentDeltas : AgentTick(dt)

SpecNPC == InitNPC /\ [][NextNPC]_vars

(***************************************************************************)
(* The input path of a session (main.go): a reader goroutine reads the     *)
(* terminal one byte at a time and offers each byte to the input channel   *)
(* with a select that has a default case; the game loop receives from the  *)
(* channel in processInput.                                                *)
(***************************************************************************)
\* make(chan byte, 1)
InputCap == 1

\* how many bytes the terminal delivers in a run
MaxInput == 3

\* the bytes typed
InputBytes == {"w", "a", FireKey}

\* os.Stdin.Read returned one byte
ReaderRead(b) ==
    /\ reader.pc = "read"
    /\ Len(bytesRead) < MaxInput
    /\ reader' = [pc |-> "select", buf |-> b]
    /\ bytesRead' = Append(bytesRead, b)
    /\ UNCHANGED <<cfgVars, regVars, worldVars, pc, ret, joinHist, tickVars,
                   probe, drawVars, inputCh, bytesDelivered>>

\* os.Stdin.Read returned an error or no byte: continue
ReaderReadNothing ==
    /\ reader.pc = "read"
    /\ UNCHANGED vars

ReaderSelect_Blocking ==
    /\ reader.pc = "select"
    /\ Len(inputCh) < InputCap
    /\ inputCh' = Append(inputCh, reader.buf)
    /\ reader' = [reader EXCEPT !.pc = "read"]
    /\ UNCHANGED <<cfgVars, regVars, worldVars, pc, ret, joinHist, tickVars,
                   probe, drawVars, bytesRead, bytesDelivered>>

\* select { case inputCh <- buf[0]: default: }
ReaderSelect ==
    /\ reader.pc = "select"
    /\ inputCh' = IF Len(inputCh) < InputCap THEN Append(inputCh, reader.buf) ELSE inputCh
    /\ reader' = [reader EXCEPT !.pc = "read"]
    /\ UNCHANGED <<cfgVars, regVars, worldVars, pc, ret, joinHist, tickVars,
                   probe, drawVars, bytesRead, bytesDelivered>>

\* processInput: case key := <-inputCh
ReceiveKey ==
    /\ inputCh # <<>>
    /\ bytesDelivered' = Append(bytesDelivered, Head(inputCh))
    /\ inputCh' = Tail(inputCh)
    /\ UNCHANGED <<cfgVars, regVars, worldVars, pc, ret, joinHist, tickVars,
                   probe, drawVars, reader, bytesRead>>

\* main up to the start of the reader goroutine
InitInput ==
    /\ Map = CellMap
    /\ randDraws = {}
    /\ QuietWorld
    /\ probe = <<>>
    /\ screen = <<>>
    /\ zBuffer = <<>>
    /\ cast = <<>>
    /\ sprites = <<>>
    /\ reader = [pc |-> "read", buf |-> NoKey]
    /\ inputCh = <<>>
    /\ bytesRead = <<>>
    /\ bytesDelivered = <<>>

NextInput ==
    \/ \E b \in InputBytes : ReaderRead(b)
    \/ ReaderReadNothing
    \/ ReaderSelect
    \/ ReceiveKey

SpecInput == InitInput /\ [][NextInput]_vars

(***************************************************************************)
(* The display surface (screen.Screen) and the renderer (renderer.go).     *)
(* A cell of the buffer is [Char, Color, by]: every caller of SetCell      *)
(* passes the same value as foreground and background colour, kept here    *)
(* as one Color; by is history, the collection index of the sprite that    *)
(* wrote the cell last, 0 for a cell of the wall pass or of Clear.         *)
(***************************************************************************)
\* the size of the terminal
ScreenWidth == 4
ScreenHeight == 8

BlankCell == [Char |-> " ", Color |-> [base |-> "black"], by |-> 0]

NewScreen(width, height) ==
    [ Width |-> width, Height |-> height, GameHeight |-> height - 2,
      Buffer |-> [y \in 0..(height - 1) |-> [x \in 0..(width - 1) |-> BlankCell]] ]

\* Screen.Clear: the rows of the game area
Clear(s) ==
    [s EXCEPT !.Buffer = [y \in DOMAIN s.Buffer |->
                            [x \in DOMAIN s.Buffer[y] |->
                               IF y < s.GameHeight THEN BlankCell ELSE s.Buffer[y][x]]]]

SetCell_WholeHeight(s, x, y, cell) ==
    IF x >= 0 /\ x < s.Width /\ y >= 0 /\ y < s.Height
    THEN [s EXCEPT !.Buffer[y][x] = cell]
    ELSE s

\* Screen.SetCell
SetCell(s, x, y, cell) ==
    IF x >= 0 /\ x < s.Width /\ y >= 0 /\ y < s.GameHeight
    THEN [s EXCEPT !.Buffer[y][x] = cell]
    ELSE s

\* the SetCell calls of one loop nest, each on a cell of its own: writes is
\* a set of [x, y, cell]
Paint(s, writes) ==
    [s EXCEPT !.Buffer =
        [y \in DOMAIN s.Buffer |->
           [x \in DOMAIN s.Buffer[y] |->
              IF \E w \in writes : w.x = x /\ w.y = y
              THEN SetCell(s, x, y, (CHOOSE w \in writes : w.x = x /\ w.y = y).cell).Buffer[y][x]
              ELSE s.Buffer[y][x]]]]

\* 1e30, the deltaDist of a ray that never crosses a grid line of the axis,
\* and math.Inf(1), the depth of a column nothing was drawn in
Huge == 1000000
Inf == 1000000000

\* Render, lines 38-83: the ray of column x of screenWidth columns
RayStart(p, x, screenWidth) ==
    LET cameraX == (2 * x * FP) \div screenWidth - FP
        rayDir == Add(p.Direction, Scale(p.CameraPlane, cameraX))
        mapX == GoInt(p.Position.X)
        mapY == GoInt(p.Position.Y)
        deltaDistX == IF rayDir.X = 0 THEN Huge ELSE Abs(FDiv(FP, rayDir.X))
        deltaDistY == IF rayDir.Y = 0 THEN Huge ELSE Abs(FDiv(FP, rayDir.Y))
    IN  [ x |-> x, rayDir |-> rayDir, mapX |-> mapX, mapY |-> mapY,
          deltaDistX |-> deltaDistX, deltaDistY |-> deltaDistY,
          stepX |-> IF rayDir.X < 0 THEN -1 ELSE 1,
          stepY |-> IF rayDir.Y < 0 THEN -1 ELSE 1,
          sideDistX |-> IF rayDir.X < 0
                        THEN FMul(p.Position.X - mapX * FP, deltaDistX)
                        ELSE FMul(mapX * FP + FP - p.Position.X, deltaDistX),
          sideDistY |-> IF rayDir.Y < 0
                        THEN FMul(p.Position.Y - mapY * FP, deltaDistY)
                        ELSE FMul(mapY * FP + FP - p.Position.Y, deltaDistY),
          hit |-> 0, side |-> 0, steps |-> 0 ]

RayJump_StandsStill(ray, m) ==
    LET r == IF ray.sideDistX < ray.sideDistY
             THEN [ray EXCEPT !.sideDistX = @ + ray.deltaDistX, !.side = 0]
             ELSE [ray EXCEPT !.sideDistY = @ + ray.deltaDistY, !.side = 1]
    IN  [r EXCEPT !.hit = IF IsWall(m, r.mapX, r.mapY) THEN 1 ELSE 0, !.steps = @ + 1]

\* one pass of the DDA loop, lines 86-101; steps is history, the passes made
RayJump(ray, m) ==
    LET r == IF ray.sideDistX < ray.sideDistY
             THEN [ray EXCEPT !.sideDistX = @ + ray.deltaDistX, !.mapX = @ + ray.stepX, !.side = 0]
             ELSE [ray EXCEPT !.sideDistY = @ + ray.deltaDistY, !.mapY = @ + ray.stepY, !.side = 1]
    IN  [r EXCEPT !.hit = IF IsWall(m, r.mapX, r.mapY) THEN 1 ELSE 0, !.steps = @ + 1]

\* lines 104-108
PerpWallDist(ray, p) ==
    IF ray.side = 0
    THEN FDiv(ray.mapX * FP - p.Position.X + ((1 - ray.stepX) * FP) \div 2, ray.rayDir.X)
    ELSE FDiv(ray.mapY * FP - p.Position.Y + ((1 - ray.stepY) * FP) \div 2, ray.rayDir.Y)

\* Go's integer division a/b for b > 0: truncation toward zero
GoDiv(a, b) == IF a >= 0 THEN a \div b ELSE -((-a) \div b)

\* line 111: lineHeight := int(float64(gameHeight) / perpWallDist)
lineHeight(gameHeight, perpWallDist) == GoDiv(gameHeight * FP, perpWallDist)

\* lines 114-117: the first row of the wall strip
drawStart(gameHeight, lh) ==
    LET start == GoDiv(-lh, 2) + GoDiv(gameHeight, 2)
    IN  IF start < 0 THEN 0 ELSE start

\* a slip: the last row of the strip is not clipped to the game area
drawEnd_Unclipped(gameHeight, lh) == GoDiv(lh, 2) + GoDiv(gameHeight, 2)

\* lines 118-121: the last row of the wall strip
drawEnd(gameHeight, lh) ==
    LET end == GoDiv(lh, 2) + GoDiv(gameHeight, 2)
    IN  IF end >= gameHeight THEN gameHeight - 1 ELSE end

\* lines 147-150 and 160-163: the distance of a ceiling or floor row that
\* lies rows rows from the centre line, with the fallback
rowDistance(gameHeight, rows, perpWallDist) ==
    LET d == FDiv(gameHeight * FP, 2 * rows * FP - FP)
    IN  IF d < 0 THEN perpWallDist ELSE d

\* lines 111-167: the wall strip, the ceiling and the floor of column x.  The
\* colours are kept as what they are computed from.
WallSlice(s, ray, perpWallDist, m) ==
    LET gameHeight == s.GameHeight
        lh == lineHeight(gameHeight, perpWallDist)
        wallColor == [base |-> "wall", wallType |-> GetWallType(m, ray.mapX, ray.mapY),
                      side |-> ray.side, distance |-> perpWallDist]
        ceilingColor(y) ==
            [base |-> "ceiling",
             rowDistance |-> rowDistance(gameHeight, GoDiv(gameHeight, 2) - y, perpWallDist)]
        floorColor(y) ==
            [base |-> "floor",
             rowDistance |-> rowDistance(gameHeight, y - GoDiv(gameHeight, 2), perpWallDist)]
    IN  Paint(Paint(Paint(s,
            { [x |-> ray.x, y |-> y, cell |-> [Char |-> "#", Color |-> wallColor, by |-> 0]] :
                y \in drawStart(gameHeight, lh)..drawEnd(gameHeight, lh) }),
            { [x |-> ray.x, y |-> y, cell |-> [Char |-> " ", Color |-> ceilingColor(y), by |-> 0]] :
                y \in 0..(drawStart(gameHeight, lh) - 1) }),
            { [x |-> ray.x, y |-> y, cell |-> [Char |-> " ", Color |-> floorColor(y), by |-> 0]] :
                y \in (drawEnd(gameHeight, lh) + 1)..(gameHeight - 1) })

\* a sprite of renderAllSprites for the entity e seen by player p
SpriteOf(e, spriteType, p) ==
    LET relativePos == Sub(e.Position, p.Position)
    IN  [ pos |-> e.Position,
          transformedX |-> FMul(relativePos.X, p.Direction.Y) + FMul(relativePos.Y, -p.Direction.X),
          transformedY |-> FMul(relativePos.X, p.Direction.X) + FMul(relativePos.Y, p.Direction.Y),
          spriteType |-> spriteType ]

\* renderAllSprites, lines 176-225: the active fireballs in slice order, then
\* the other players in list order, without those at or behind the viewer;
\* id is history, the place of the sprite in this list
CollectSprites(p, projectiles, otherPlayers) ==
    LET balls == SelectSeq(projectiles, LAMBDA q : q.Active /\ q.Type = "Fireball")
        all == [k \in 1..Len(balls) |-> SpriteOf(balls[k], "fireball", p)]
               \o [k \in 1..Len(otherPlayers) |-> SpriteOf(otherPlayers[k], "player", p)]
        seen == SelectSeq(all, LAMBDA spr : ~(spr.transformedY <= 10))
    IN  [k \in 1..Len(seen) |->
            [ pos |-> seen[k].pos, transformedX |-> seen[k].transformedX,
              transformedY |-> seen[k].transformedY, spriteType |-> seen[k].spriteType,
              id |-> k ]]

\* the two nested loops of lines 228-234, from the pass (i, j) on; the
\* indices count from 1
RECURSIVE SortFrom(_, _, _)
SortFrom(s, i, j) ==
    IF i >= Len(s) THEN s
    ELSE IF j > Len(s) THEN SortFrom(s, i + 1, i + 2)
    ELSE SortFrom(IF s[i].transformedY < s[j].transformedY
                  THEN [s EXCEPT ![i] = s[j], ![j] = s[i]]
                  ELSE s, i, j + 1)

SortSprites_AsCollected(s) == s

SortSprites(s) == SortFrom(s, 1, 2)

\* renderSprite, lines 256-258: the screen column of the sprite's centre
ScreenX(spr, p, screenWidth) ==
    LET cameraPlaneLength == Length(p.CameraPlane)
        spriteScreenX == FDiv(FDiv(spr.transformedX, spr.transformedY), cameraPlaneLength)
    IN  GoInt(FMul((screenWidth * FP) \div 2, FP + spriteScreenX))

\* lines 266-295
SpriteSize(spr, gameHeight) ==
    LET raw == IF spr.spriteType = "fireball"
               THEN GoInt(FMul(FDiv(gameHeight * FP, spr.transformedY), 50))
               ELSE LET sz == GoInt(FMul(FDiv(gameHeight * FP, spr.transformedY), 120) + 50)
                    IN  IF sz < 4 THEN 4 ELSE sz
        atLeast == IF raw < 1 THEN 1 ELSE raw
    IN  IF atLeast > GoDiv(gameHeight, 2) THEN GoDiv(gameHeight, 2) ELSE atLeast

\* lines 309-317
SpriteWidth(spr, spriteSize) ==
    LET w == IF spr.spriteType = "player" THEN (spriteSize * 3) \div 4 ELSE spriteSize \div 3
    IN  IF w < 1 THEN 1 ELSE w

\* the depth test of line 324 on column drawX
InFront_NoTest(spr, zb, drawX) == drawX >= 0 /\ drawX < Len(zb)

InFront(spr, zb, drawX) ==
    drawX >= 0 /\ drawX < Len(zb) /\ spr.transformedY < zb[drawX + 1] + 10

\* renderSprite
RenderSprite(s, zb, spr, p) ==
    LET gameHeight == s.GameHeight
        screenX == ScreenX(spr, p, Len(zb))
        spriteSize == SpriteSize(spr, gameHeight)
        startY0 == GoDiv(gameHeight, 2) - spriteSize \div 2
        endY0 == GoDiv(gameHeight, 2) + spriteSize \div 2
        startY == IF startY0 < 0 THEN 0 ELSE startY0
        endY == IF endY0 >= gameHeight THEN gameHeight - 1 ELSE endY0
        spriteWidth == SpriteWidth(spr, spriteSize)
        centerY == startY + (endY - startY) \div 2
        intensity(xOffset, y) ==
            LET distFromCenter == FDiv(Abs(y - centerY) * FP, (spriteSize \div 2 + 1) * FP)
                distFromCenterX == FDiv(Abs(xOffset) * FP, (spriteWidth \div 2 + 1) * FP)
            IN  IF spr.spriteType = "fireball"
                THEN FP - Sqrt(distFromCenter * distFromCenter + distFromCenterX * distFromCenterX)
                ELSE FP - Sqrt(distFromCenter * distFromCenter
                               + (distFromCenterX * distFromCenterX) \div 2)
        threshold == IF spr.spriteType = "fireball" THEN 10 ELSE 5
        char == IF spr.spriteType = "fireball" THEN "o" ELSE "@"
    IN  IF screenX < 0 \/ screenX >= Len(zb) THEN s
        ELSE Paint(s,
               { [ x |-> screenX + c[1], y |-> c[2],
                   cell |-> [ Char |-> char,
                              Color |-> [base |-> spr.spriteType, intensity |-> intensity(c[1], c[2])],
                              by |-> spr.id ] ] :
                   c \in { d \in ((0 - spriteWidth \div 2)..(spriteWidth \div 2)) \X (startY..endY) :
                             /\ InFront(spr, zb, screenX + d[1])
                             /\ intensity(d[1], d[2]) > threshold } })

\* GetOtherPlayers: the players of the connected sessions other than t's, in
\* one of the orders the iteration over the registry can give
GetOtherPlayers(t) ==
    LET others == SelectSeq(sessions, LAMBDA ss : ss.ID # t /\ ss.Connected
                                                  /\ Players[ss.ID] # NoSession)
    IN  [k \in 1..Len(others) |-> others[k].Player]

\* the session whose frame is rendered
Viewer == 1

\* Render, lines 25-36: Clear, the depth buffer, and the ray of column 0
RenderBegin ==
    /\ cast.pc = "idle"
    /\ screen' = Clear(screen)
    /\ zBuffer' = [i \in DOMAIN zBuffer |-> Inf]
    /\ cast' = [pc |-> "march", ray |-> RayStart(PlayerOf(Viewer), 0, Len(zBuffer))]
    /\ UNCHANGED <<cfgVars, regVars, worldVars, pc, ret, joinHist, tickVars,
                   probe, sprites, inputVars>>

\* one pass of the loop for hit == 0
RayStep ==
    /\ cast.pc = "march"
    /\ cast.ray.hit = 0
    /\ cast' = [cast EXCEPT !.ray = RayJump(@, Map)]
    /\ UNCHANGED <<cfgVars, regVars, worldVars, pc, ret, joinHist, tickVars,
                   probe, screen, zBuffer, sprites, inputVars>>

\* lines 104-168: the column is drawn and its depth recorded; then the next
\* column, or renderAllSprites after the last
DrawSlice ==
    /\ cast.pc = "march"
    /\ cast.ray.hit = 1
    /\ LET perpWallDist == PerpWallDist(cast.ray, PlayerOf(Viewer))
       IN  /\ zBuffer' = [zBuffer EXCEPT ![cast.ray.x + 1] = perpWallDist]
           /\ screen' = WallSlice(screen, cast.ray, perpWallDist, Map)
    /\ cast' = IF cast.ray.x + 1 < Len(zBuffer)
               THEN [pc |-> "march", ray |-> RayStart(PlayerOf(Viewer), cast.ray.x + 1, Len(zBuffer))]
               ELSE [pc |-> "sprites"]
    /\ UNCHANGED <<cfgVars, regVars, worldVars, pc, ret, joinHist, tickVars,
                   probe, sprites, inputVars>>

SpritesBegin_DropsSpent ==
    /\ cast.pc = "sprites"
    /\ sprites' = [ list |-> SortSprites(CollectSprites(PlayerOf(Viewer),
                                            [k \in 1..Len(Projectiles) |-> projHeap[Projectiles[k]]],
                                            GetOtherPlayers(Viewer))),
                    next |-> 1 ]
    /\ Projectiles' = activeProjectiles(Projectiles, projHeap)
    /\ cast' = [pc |-> "draw"]
    /\ UNCHANGED <<cfgVars, regVars, projHeap, NPCs, NPCsMutex, pc, ret, joinHist, tickVars,
                   probe, screen, zBuffer, inputVars>>

\* renderAllSprites, lines 176-234: the sprites are collected and sorted
SpritesBegin ==
    /\ cast.pc = "sprites"
    /\ sprites' = [ list |-> SortSprites(CollectSprites(PlayerOf(Viewer),
                                            [k \in 1..Len(Projectiles) |-> projHeap[Projectiles[k]]],
                                            GetOtherPlayers(Viewer))),
                    next |-> 1 ]
    /\ cast' = [pc |-> "draw"]
    /\ UNCHANGED <<cfgVars, regVars, worldVars, pc, ret, joinHist, tickVars,
                   probe, screen, zBuffer, inputVars>>

\* one pass of the loop of lines 237-239
DrawSprite ==
    /\ cast.pc = "draw"
    /\ sprites.next <= Len(sprites.list)
    /\ screen' = RenderSprite(screen, zBuffer, sprites.list[sprites.next], PlayerOf(Viewer))
    /\ sprites' = [sprites EXCEPT !.next = @ + 1]
    /\ UNCHANGED <<cfgVars, regVars, worldVars, pc, ret, joinHist, tickVars,
                   probe, zBuffer, cast, inputVars>>

\* Render returns; the frame is counted
RenderReturn ==
    /\ cast.pc = "draw"
    /\ sprites.next > Len(sprites.list)
    /\ cast' = [pc |-> "done"]
    /\ nTicks' = nTicks + 1
    /\ UNCHANGED <<cfgVars, regVars, worldVars, pc, ret, joinHist,
                   tick, loc, obs, updCount, npcCount, flight, nCalls,
                   probe, screen, zBuffer, sprites, inputVars>>

\* a SetCell call made on the finished frame, at any coordinate up to one
\* cell outside the buffer
CallSetCell(x, y) ==
    /\ cast.pc = "done"
    /\ nCalls = 0
    /\ screen' = SetCell(screen, x, y, [Char |-> "+", Color |-> [base |-> "white"], by |-> 0])
    /\ nCalls' = nCalls + 1
    /\ UNCHANGED <<cfgVars, regVars, worldVars, pc, ret, joinHist,
                   tick, loc, obs, updCount, npcCount, nTicks, flight,
                   probe, zBuffer, cast, sprites, inputVars>>

\* a corridor four cells long
HallMap ==
    [ Width |-> 6, Height |-> 3,
      Grid |-> << <<1, 1, 1, 1, 1, 1>>,
                  <<1, 0, 0, 0, 0, 1>>,
                  <<1, 1, 1, 1, 1, 1>> >> ]

\* the view directions a player reaches by quarter turns, with the camera
\* plane of each
Poses ==
    { [Direction |-> Vec(-100, 0), CameraPlane |-> Vec(0, 66)],
      [Direction |-> Vec(0, 100), CameraPlane |-> Vec(66, 0)],
      [Direction |-> Vec(100, 0), CameraPlane |-> Vec(0, -66)],
      [Direction |-> Vec(0, -100), CameraPlane |-> Vec(-66, 0)] }

\* a player at pos looking as pose says
PlayerAt(pos, pose) ==
    [NewPlayer(pos.X, pos.Y) EXCEPT !.Direction = pose.Direction, !.CameraPlane = pose.CameraPlane]

\* where the other players of a scene in the corridor stand: two points on
\* its axis and one beside it
ActorSpots == {Vec(295, 150), Vec(250, 150), Vec(250, 130)}

\* the fireballs of a scene: active on the axis of the corridor, or spent
FireballSpots ==
    ({Vec(350, 150), Vec(295, 150), Vec(250, 150)} \X {TRUE}) \cup {<<Vec(350, 150), FALSE>>}

\* how many fireballs and how many other players a scene holds at most
MaxFireballs == 2
MaxOthers == 1

\* the sequences of at most n elements of S
SeqUpTo(S, n) == UNION { [1..k -> S] : k \in 0..n }

\* a session in a map with no actor, at the centre of any passable cell and
\* looking any way; or the session at the east end of the corridor looking
\* west at a scene of fireballs, one of them spent, and other players
InitView ==
    /\ randDraws = {50}
    /\ \E pose \in Poses :
         \/ /\ Map \in {HallMap, PillarMap, GateMap}
            /\ \E pos \in findRandomSpawnPoint(Map, randDraws) :
                 sessions = << [ID |-> Viewer, Player |-> PlayerAt(pos, pose), Connected |-> TRUE] >>
            /\ projHeap = <<>>
         \/ /\ Map = HallMap
            /\ pose.Direction = Vec(-100, 0)
            /\ \E others \in SeqUpTo(ActorSpots, MaxOthers) :
                 sessions = << [ID |-> Viewer, Player |-> PlayerAt(Vec(450, 150), pose), Connected |-> TRUE] >>
                            \o [k \in 1..Len(others) |->
                                  [ID |-> Viewer + k, Player |-> NewPlayer(others[k].X, others[k].Y),
                                   Connected |-> TRUE]]
            /\ \E balls \in SeqUpTo(FireballSpots, MaxFireballs) :
                 projHeap = [k \in 1..Len(balls) |->
                               [NewFireball(balls[k][1], Vec(-100, 0)) EXCEPT !.Active = balls[k][2]]]
    /\ Players = [id \in SessionIDs |-> IF id <= Len(sessions) THEN id ELSE NoSession]
    /\ PlayersMutex = FreeMutex
    /\ Projectiles = [k \in 1..Len(projHeap) |-> k]
    /\ NPCs = <<>>
    /\ NPCsMutex = FreeMutex
    /\ pc = [t \in Goroutines |-> "idle"]
    /\ ret = [t \in Goroutines |-> NoResult]
    /\ joinHist = CleanHist({}, 0)
    /\ tick = IdleTick
    /\ loc = [t \in Clients |-> NoLocals]
    /\ obs = [t \in Clients |-> NoObs]
    /\ updCount = <<>>
    /\ npcCount = <<>>
    /\ nTicks = 0
    /\ flight = <<>>
    /\ nCalls = 0
    /\ probe = <<>>
    /\ screen = NewScreen(ScreenWidth, ScreenHeight)
    /\ zBuffer = [i \in 1..ScreenWidth |-> 0]
    /\ cast = [pc |-> "idle"]
    /\ sprites = <<>>
    /\ reader = <<>>
    /\ inputCh = <<>>
    /\ bytesRead = <<>>
    /\ bytesDelivered = <<>>

NextView ==
    \/ RenderBegin
    \/ RayStep
    \/ DrawSlice
    \/ SpritesBegin
    \/ DrawSprite
    \/ RenderReturn
    \/ \E x \in (0 - 1)..ScreenWidth : \E y \in (0 - 1)..ScreenHeight : CallSetCell(x, y)

SpecView == InitView /\ [][NextView]_vars

(***************************************************************************)
(* SpecSpawn: NewGameServer on one of the loaded maps, then joins and      *)
(* leaves; nobody moves, so every Player stands where AddPlayer put it.    *)
(***************************************************************************)
NextSpawn ==
    \E t \in Clients :
        \/ Join(t)
        \/ Leave(t)

\* NewGameServer on a loaded map with at most two passable cells
InitSpawn ==
    /\ InitNPC
    /\ randDraws = {10}
    /\ Cardinality(emptySpaces(Map)) <= 2

SpecSpawn == InitSpawn /\ [][NextSpawn]_vars

(***************************************************************************)
(* SpecActor: one call of processInput's switch on a Player, of NPC.Update *)
(* or of Projectile.Update, on an actor that stands in a passable cell of  *)
(* a loaded map, one call in a run; the call's arguments and its result    *)
(* are kept in probe.                                                      *)
(***************************************************************************)
\* the maps the calls are made on
ActorMaps == AgentMaps \cup {GateMap}

\* the points of the passable cells at which the actors stand: the centre
\* and a point near two of the cell's borders
Standpoints(m) ==
    { Vec(c[1] * FP + o.X, c[2] * FP + o.Y) :
        c \in emptySpaces(m), o \in {Vec(50, 50), Vec(20, 80)} }

\* the unit vectors the actors head along
Headings == { RandDir(r) : r \in {0, 15, 25, 40, 50, 65, 75, 90} }

\* a player at pos heading along d, the camera plane 0.66 long to its side
\* as NewPlayer and the two rotations keep it
PlayerFacing(pos, d) ==
    PlayerAt(pos, [Direction |-> d, CameraPlane |-> Vec(FMul(66, d.Y), -FMul(66, d.X))])

\* the deltaTime of the calls: 0.1 s, 0.2 s, the quarter-turn time, 1 s, 3 s
ActorDeltas == {10, 20, QuarterTurnDelta, 100, 300}

\* what is left of a timer or of a life: 0.05 s, or the full 2 s and 3 s
ActorTimes == {5, 200, FireballLife}

\* the case of processInput's switch for key, on player p
CallKey(p, key, dt) ==
    /\ probe = <<>>
    /\ KeyFits(key, dt)
    /\ probe' = [ op |-> "processInput", key |-> key, dt |-> dt, before |-> p,
                  after |-> KeyOnPlayer(p, key, dt, Map) ]
    /\ UNCHANGED <<cfgVars, regVars, worldVars, pc, ret, joinHist, tickVars,
                   drawVars, inputVars>>

\* npc.Update(deltaTime, worldMap), with what rand.Float64() returns
CallNPCUpdate(npc, dt, rAngle, rTimer) ==
    /\ probe = <<>>
    /\ probe' = [ op |-> "NPC.Update", dt |-> dt, rAngle |-> rAngle, before |-> npc,
                  after |-> NPCUpdate(npc, dt, Map, rAngle, rTimer) ]
    /\ UNCHANGED <<cfgVars, regVars, worldVars, pc, ret, joinHist, tickVars,
                   drawVars, inputVars>>

\* p.Update(deltaTime, worldMap) on a projectile, and the same call once more
CallProjectileUpdate(p, dt) ==
    /\ probe = <<>>
    /\ probe' = [ op |-> "Projectile.Update", dt |-> dt, before |-> p,
                  after |-> ProjectileUpdate(p, dt, Map),
                  again |-> ProjectileUpdate(ProjectileUpdate(p, dt, Map), dt, Map) ]
    /\ UNCHANGED <<cfgVars, regVars, worldVars, pc, ret, joinHist, tickVars,
                   drawVars, inputVars>>

InitActor ==
    /\ Map \in ActorMaps
    /\ randDraws = {0, 50}
    /\ QuietWorld
    /\ NoView

NextActor ==
    /\ probe = <<>>
    /\ \E pos \in Standpoints(Map), d \in Headings, dt \in ActorDeltas :
           \/ \E key \in MoveKeys \cup TurnKeys : CallKey(PlayerFacing(pos, d), key, dt)
           \/ \E rAngle \in randDraws, rTimer \in randDraws, timer \in ActorTimes :
                CallNPCUpdate([NewNPC(pos.X, pos.Y, rAngle, rTimer) EXCEPT
                                  !.Direction = d, !.MovementTimer = timer],
                              dt, rAngle, rTimer)
           \/ \E life \in ActorTimes, active \in BOOLEAN :
                CallProjectileUpdate([NewFireball(pos, d) EXCEPT
                                         !.Life = life, !.Active = active], dt)

SpecActor == InitActor /\ [][NextActor]_vars

(***************************************************************************)
(* SpecSlice: the wall pass of Render on a terminal of any height from two *)
(* rows up, each column drawn once for a wall at any of SliceDistances.    *)
(***************************************************************************)
\* the columns of the terminal, and the heights term.GetSize reports
SliceWidth == 2
SliceHeights == 2..ScreenHeight

\* the perpWallDist of a column: from 0.01 to 7 cells, and a wall out of sight
SliceDistances == {1, 10, 50, 100, 150, 200, 300, 400, 700, Huge}

\* lines 104-168 for column x, whose ray met the west wall of the corridor
\* at perpWallDist
SliceColumn(x, perpWallDist) ==
    /\ zBuffer[x + 1] = 0
    /\ zBuffer' = [zBuffer EXCEPT ![x + 1] = perpWallDist]
    /\ screen' = WallSlice(screen,
                           [RayStart(PlayerOf(Viewer), x, Len(zBuffer)) EXCEPT !.mapX = 0, !.hit = 1],
                           perpWallDist, Map)
    /\ UNCHANGED <<cfgVars, regVars, worldVars, pc, ret, joinHist, tickVars,
                   probe, cast, sprites, inputVars>>

\* the session at the east end of the corridor, looking west
InitSlice ==
    /\ Map = HallMap
    /\ randDraws = {50}
    /\ sessions = << [ID |-> Viewer, Player |-> NewPlayer(450, 150), Connected |-> TRUE] >>
    /\ Players = [id \in SessionIDs |-> IF id = Viewer THEN 1 ELSE NoSession]
    /\ PlayersMutex = FreeMutex
    /\ Projectiles = <<>>
    /\ projHeap = <<>>
    /\ NPCs = <<>>
    /\ NPCsMutex = FreeMutex
    /\ pc = [t \in Goroutines |-> "idle"]
    /\ ret = [t \in Goroutines |-> NoResult]
    /\ joinHist = CleanHist({}, 0)
    /\ tick = IdleTick
    /\ loc = [t \in Clients |-> NoLocals]
    /\ obs = [t \in Clients |-> NoObs]
    /\ updCount = <<>>
    /\ npcCount = <<>>
    /\ nTicks = 0
    /\ flight = <<>>
    /\ nCalls = 0
    /\ probe = <<>>
    /\ \E height \in SliceHeights : screen = NewScreen(SliceWidth, height)
    /\ zBuffer = [i \in 1..SliceWidth |-> 0]
    /\ cast = [pc |-> "idle"]
    /\ sprites = <<>>
    /\ reader = <<>>
    /\ inputCh = <<>>
    /\ bytesRead = <<>>
    /\ bytesDelivered = <<>>

NextSlice ==
    \E x \in 0..(SliceWidth - 1), perpWallDist \in SliceDistances :
        SliceColumn(x, perpWallDist)

SpecSlice == InitSlice /\ [][NextSlice]_vars

(***************************************************************************)
(* SpecFrame: the session loop of main with its reader goroutine: on each  *)
(* tick processInput drains the input channel onto the Player, then the    *)
(* projectiles are updated and the frame is rendered.  pc[TickLoop] is the *)
(* place of the loop; probe keeps, for the frame in progress, the Player   *)
(* and the queue as the drain found them and the bytes applied so far.     *)
(***************************************************************************)
\* byte 27, on which processInput leaves the program
EscKey == "esc"

\* the bytes typed in these runs
FrameBytes == {"w", "a", EscKey}

\* case <-ticker.C: deltaTime is taken and processInput is called
FrameBegin(dt) ==
    /\ pc[TickLoop] = "idle"
    /\ nTicks < MaxFrames
    /\ pc' = [pc EXCEPT ![TickLoop] = "drain"]
    /\ tick' = [IdleTick EXCEPT !.dt = dt]
    /\ probe' = [start |-> sessions[1].Player, queued |-> inputCh, applied |-> <<>>]
    /\ nTicks' = nTicks + 1
    /\ UNCHANGED <<cfgVars, regVars, worldVars, ret, joinHist, loc, obs, updCount, npcCount,
                   flight, nCalls, drawVars, inputVars>>

\* processInput: case key := <-inputCh, and the switch on key
DrainKey ==
    /\ pc[TickLoop] = "drain"
    /\ inputCh # <<>>
    /\ inputCh' = Tail(inputCh)
    /\ bytesDelivered' = Append(bytesDelivered, Head(inputCh))
    /\ IF Head(inputCh) = EscKey
       THEN /\ pc' = [pc EXCEPT ![TickLoop] = "exit"]
            /\ UNCHANGED <<sessions, probe>>
       ELSE /\ sessions' = [sessions EXCEPT
                               ![1].Player = KeyOnPlayer(@, Head(inputCh), tick.dt, Map)]
            /\ probe' = [probe EXCEPT !.applied = Append(@, Head(inputCh))]
            /\ pc' = pc
    /\ UNCHANGED <<cfgVars, Players, PlayersMutex, worldVars, ret, joinHist, tickVars,
                   drawVars, reader, bytesRead>>

\* a slip: processInput returns without looking at the channel
DrainDone_LeavesInput ==
    /\ pc[TickLoop] = "drain"
    /\ pc' = [pc EXCEPT ![TickLoop] = "render"]
    /\ UNCHANGED <<cfgVars, regVars, worldVars, ret, joinHist, tickVars,
                   probe, drawVars, inputVars>>

\* processInput: default: return
DrainDone ==
    /\ pc[TickLoop] = "drain"
    /\ inputCh = <<>>
    /\ pc' = [pc EXCEPT ![TickLoop] = "render"]
    /\ UNCHANGED <<cfgVars, regVars, worldVars, ret, joinHist, tickVars,
                   probe, drawVars, inputVars>>

\* lines 96-124: projectileManager.Update, the HUD line and the render call
FrameRender ==
    /\ pc[TickLoop] = "render"
    /\ projHeap' = PMUpdate(Projectiles, projHeap, tick.dt, Map).heap
    /\ Projectiles' = PMUpdate(Projectiles, projHeap, tick.dt, Map).Projectiles
    /\ pc' = [pc EXCEPT ![TickLoop] = "idle"]
    /\ tick' = IdleTick
    /\ UNCHANGED <<cfgVars, regVars, NPCs, NPCsMutex, ret, joinHist, loc, obs, updCount,
                   npcCount, nTicks, flight, nCalls, probe, drawVars, inputVars>>

\* main up to the game loop: the player of the local session in the walled
\* cell, the reader goroutine started
InitFrame ==
    /\ Map = CellMap
    /\ randDraws = {50}
    /\ sessions = << [ID |-> 1, Player |-> NewPlayer(150, 150), Connected |-> TRUE] >>
    /\ Players = [id \in SessionIDs |-> IF id = 1 THEN 1 ELSE NoSession]
    /\ PlayersMutex = FreeMutex
    /\ Projectiles = <<>>
    /\ projHeap = <<>>
    /\ NPCs = <<>>
    /\ NPCsMutex = FreeMutex
    /\ pc = [t \in Goroutines |-> "idle"]
    /\ ret = [t \in Goroutines |-> NoResult]
    /\ joinHist = SpoiltHist
    /\ tick = IdleTick
    /\ loc = [t \in Clients |-> NoLocals]
    /\ obs = [t \in Clients |-> NoObs]
    /\ updCount = <<>>
    /\ npcCount = <<>>
    /\ nTicks = 0
    /\ flight = <<>>
    /\ nCalls = 0
    /\ probe = <<>>
    /\ screen = <<>>
    /\ zBuffer = <<>>
    /\ cast = <<>>
    /\ sprites = <<>>
    /\ reader = [pc |-> "read", buf |-> NoKey]
    /\ inputCh = <<>>
    /\ bytesRead = <<>>
    /\ bytesDelivered = <<>>

NextFrame ==
    \/ /\ pc[TickLoop] # "exit"
       /\ \/ \E b \in FrameBytes : ReaderRead(b)
          \/ ReaderReadNothing
          \/ ReaderSelect
    \/ \E dt \in TickDeltas : FrameBegin(dt)
    \/ DrainKey
    \/ DrainDone
    \/ FrameRender

SpecFrame == InitFrame /\ [][NextFrame]_vars

\* the loop's goroutine is scheduled: a step of processInput that can be
\* taken is taken
SpecFrameLive == SpecFrame /\ WF_vars(DrainKey) /\ WF_vars(DrainDone)

(***************************************************************************)
(* Claims about the registry, checked under SpecReg.                       *)
(***************************************************************************)
Min(a, b) == IF a < b THEN a ELSE b

\* C1: under every interleaving of concurrent AddPlayer and RemovePlayer
\* calls the registry never holds more than MaxPlayers sessions.
C1_NeverOverCapacity == PlayerCount <= MaxPlayers

\* the registry is full, a join has just been refused, another caller waits
\* for the mutex and some leave was served before
C1_Witness ==
    /\ PlayerCount = MaxPlayers
    /\ ~joinHist.clean
    /\ \E t, u \in Clients :
         /\ pc[t] = "add_unlock" /\ ret[t].err
         /\ pc[u] \in {"add_lock", "rem_lock"}

\* C2: while every join came from another connection and no leave was
\* served, the joins that got a session are the first MaxPlayers served (so
\* of MaxPlayers+1 concurrent joins exactly MaxPlayers succeed and one gets
\* the capacity error, in every order); and a join gets the capacity error
\* exactly when the registry holds MaxPlayers or more sessions as it is served.
C2_CapacityError ==
    /\ [](joinHist.clean => joinHist.ok = Min(Cardinality(joinHist.ids), MaxPlayers))
    /\ [][\A t \in Clients :
            (pc[t] = "add_check" /\ pc'[t] # "add_check") =>
                /\ (pc'[t] = "add_unlock" /\ ret'[t].err) <=> (PlayerCount >= MaxPlayers)
                /\ (pc'[t] = "add_insert") <=> (PlayerCount < MaxPlayers)]_vars

\* MaxPlayers+1 joins of distinct connections were served with no leave:
\* MaxPlayers got a session and the last one is returning the error
C2_Witness ==
    /\ joinHist.clean
    /\ Cardinality(joinHist.ids) = MaxPlayers + 1
    /\ joinHist.ok = MaxPlayers
    /\ \E t \in Clients : pc[t] = "add_unlock" /\ ret[t].err

\* C3: no step of an AddPlayer call that fails for capacity changes the
\* registry, a session or its Player, the projectile set or the NPC list,
\* and the call returns no session.
C3_RejectedJoinChangesNothing ==
    [][\A t \in Clients :
         /\ (pc[t] = "add_lock" /\ pc'[t] = "add_check") =>
                UNCHANGED <<Players, sessions, Projectiles, projHeap, NPCs>>
         /\ (pc[t] = "add_check" /\ pc'[t] # "add_check" /\ PlayerCount >= MaxPlayers) =>
                /\ UNCHANGED <<Players, sessions, Projectiles, projHeap, NPCs>>
                /\ ret'[t].err /\ ret'[t].session = NoSession
         /\ (pc[t] = "add_unlock" /\ pc'[t] = "idle" /\ ret[t].err) =>
                UNCHANGED <<Players, sessions, Projectiles, projHeap, NPCs>>]_vars

\* a join is being refused while the registry is full of other sessions
C3_Witness ==
    \E t \in Clients :
        /\ pc[t] = "add_unlock" /\ ret[t].err /\ ret[t].session = NoSession
        /\ PlayerCount = MaxPlayers
        /\ t \notin Registered

\* C4: RemovePlayer(id) of an id that is not registered changes neither the
\* registry nor any session; of a registered id it unregisters the id, marks
\* that session not connected and changes nothing else; in both cases the id
\* is not registered afterwards and a second RemovePlayer(id) changes nothing.
C4_LeaveIdempotent ==
    [][\A t \in Clients :
         (pc[t] = "rem_body" /\ pc'[t] = "rem_unlock") =>
            /\ Players'[t] = NoSession
            /\ \A id \in SessionIDs \ {t} : Players'[id] = Players[id]
            /\ Len(sessions') = Len(sessions)
            /\ \A i \in 1..Len(sessions) :
                 IF i = Players[t]
                 THEN sessions'[i] = [sessions[i] EXCEPT !.Connected = FALSE]
                 ELSE sessions'[i] = sessions[i]
            /\ (Players[t] = NoSession => UNCHANGED <<Players, sessions>>)
            /\ removeSession(Players', sessions', t) = <<Players', sessions'>>]_vars

\* a second leave in a row: the id's session was removed before and the
\* call finds nothing to remove, while other sessions are registered
C4_Witness ==
    \E t \in Clients :
        /\ pc[t] = "rem_unlock" /\ ~ret[t].found
        /\ \E i \in 1..Len(sessions) : sessions[i].ID = t /\ ~sessions[i].Connected
        /\ Registered # {}

(***************************************************************************)
(* Claims about the world tick under concurrency, checked under SpecTick.  *)
(***************************************************************************)
\* C5: no session's read of the shared collections, made while the world
\* tick runs, sees an inactive projectile still in the set, a set of which
\* only a part has had this tick's update, or the NPC list while an NPC is
\* in the middle of its update.
C5_ReadersSeeWholeUpdates ==
    \A t \in Clients :
        /\ ~obs[t].inactiveInSet
        /\ ~obs[t].partSet
        /\ ~obs[t].midNPC

\* C6: when a single fireball has been fired, so that no other AddProjectile
\* interferes, and its AddProjectile and the world tick have both completed,
\* the fireball is in the shared set unless its update deactivated it.
C6_FireballNotLost ==
    ( /\ pc[TickLoop] = "idle"
      /\ Len(projHeap) = 1
      /\ \A t \in Clients : pc[t] # "add_write"
      /\ projHeap[1].Active )
    => 1 \in Elems(Projectiles)

\* C7: one call of GameServer.Update calls Projectile.Update exactly once on
\* every projectile that is in the set when its loop starts and on no other,
\* and NPC.Update exactly once on every NPC.
C7_TickUpdatesEachOnce ==
    /\ \A k \in 1..Len(updCount) : updCount[k] <= 1
    /\ \A k \in 1..Len(npcCount) : npcCount[k] <= 1
    /\ pc[TickLoop] \in {"pm_assign", "npc_rlock", "npc_x", "npc_y", "upd_return"} =>
         \A k \in 1..Len(projHeap) :
            updCount[k] = (IF k \in Elems(tick.hdr) THEN 1 ELSE 0)
    /\ pc[TickLoop] = "upd_return" =>
         \A k \in 1..Len(NPCs) : npcCount[k] = 1

\* a tick that found two projectiles in the set and the three NPCs is done
C7_Witness ==
    /\ pc[TickLoop] = "upd_return"
    /\ Len(tick.hdr) = 2
    /\ Len(NPCs) = 3
    /\ \A k \in 1..2 : updCount[k] = 1

(***************************************************************************)
(* Claims about a projectile's life, frame by frame.                       *)
(***************************************************************************)
\* C8: a fireball (maxLife 3.0) is active and in the set after every tick
\* while its cumulative deltaTime is below 3.0 and its path has not entered
\* a wall cell, and it is inactive and out of the set from the first tick at
\* which the cumulative deltaTime reaches 3.0 or at which its path enters a
\* wall cell.
C8_FireballLifecycle ==
    \A q \in 1..Len(projHeap) :
        IF flight[q].elapsed < FireballLife /\ ~flight[q].crossed
        THEN projHeap[q].Active /\ q \in Elems(Projectiles)
        ELSE ~projHeap[q].Active /\ q \notin Elems(Projectiles)

\* C9: whenever the world tick is not running and no fire action is under
\* way, every projectile in the shared set is active: none that became
\* inactive is still, or again, in the set.
C9_NoInactiveInSet ==
    ( /\ pc[TickLoop] = "idle"
      /\ \A t \in Clients : pc[t] # "add_write" )
    => \A q \in Elems(Projectiles) : projHeap[q].Active

(***************************************************************************)
(* Claims about the Map.                                                   *)
(***************************************************************************)
\* C10: no join, leave, world tick, player move or rotation, fire action or
\* render changes the Map: its Width, its Height and every cell of its Grid
\* stay as loaded.
C10_MapNeverChanges == [][Map' = Map]_vars

\* a session joined, turned, fired and left, and a tick updated the fireball
C10_Witness ==
    /\ nTicks > 0
    /\ Len(projHeap) > 0
    /\ \E i \in 1..Len(sessions) :
          /\ ~sessions[i].Connected
          /\ sessions[i].Player.Direction # NewPlayer(0, 0).Direction
    /\ \E k \in 1..Len(NPCs) : NPCs[k].Position \notin findRandomSpawnPoint(Map, randDraws)

(***************************************************************************)
(* Claims about the Map queries, checked under SpecMap.                    *)
(***************************************************************************)
\* C11: a coordinate outside [0,Width) x [0,Height) is a wall of type 1;
\* inside, IsWall is true exactly when the cell value is not 0 and
\* GetWallType is the cell value.
C11_OutsideIsWallTypeOne ==
    probe # <<>> =>
        LET inside == /\ 0 <= probe.x /\ probe.x < Map.Width
                      /\ 0 <= probe.y /\ probe.y < Map.Height
        IN  IF inside
            THEN /\ probe.IsWall = (Map.Grid[probe.y + 1][probe.x + 1] # 0)
                 /\ probe.GetWallType = Map.Grid[probe.y + 1][probe.x + 1]
            ELSE /\ probe.IsWall = TRUE
                 /\ probe.GetWallType = 1

\* a query one cell past the right edge, in a row whose last cell is passable
C11_Witness ==
    /\ probe # <<>>
    /\ probe.x = Map.Width
    /\ probe.y \in 0..(Map.Height - 1)
    /\ Map.Grid[probe.y + 1][Map.Width] = 0
    /\ probe.IsWall
    /\ probe.GetWallType = 1

(***************************************************************************)
(* Claims about the wandering agents, checked under SpecNPC.               *)
(***************************************************************************)
\* C17: after spawn and after every NPC.Update, on every map and for every
\* deltaTime, every agent's position lies in [0.2, Width - 0.2] on X and in
\* [0.2, Height - 0.2] on Y.
C17_AgentsInsideTheMap ==
    \A k \in DOMAIN NPCs :
        /\ 20 <= NPCs[k].Position.X /\ NPCs[k].Position.X <= Map.Width * FP - 20
        /\ 20 <= NPCs[k].Position.Y /\ NPCs[k].Position.Y <= Map.Height * FP - 20

\* C18: an agent with direction (1,0) whose timer does not expire in this
\* update and whose X destination cell is a wall, a cell outside the map
\* included, has after the update direction.x = -1, the same X position and
\* a changeTimer of exactly 0.5.
C18_BounceOffWallOnX ==
    [][\A k \in DOMAIN NPCs :
         \A dt \in AgentDeltas :
            ( /\ AgentTick(dt)
              /\ NPCs[k].Direction = Vec(100, 0)
              /\ NPCs[k].MovementTimer - dt > 0
              /\ IsWall(Map, GoInt(NPCs[k].Position.X + FMul(NPCs[k].Speed, dt)),
                        GoInt(NPCs[k].Position.Y)) )
            => /\ NPCs'[k].Direction.X = -100
               /\ NPCs'[k].Position.X = NPCs[k].Position.X
               /\ NPCs'[k].MovementTimer = 50]_vars

(***************************************************************************)
(* Claims about the input path, checked under SpecInput.                   *)
(***************************************************************************)
\* sub is a subsequence of seq: its elements occur in seq in the same order
RECURSIVE IsSubsequence(_, _)
IsSubsequence(sub, seq) ==
    IF sub = <<>> THEN TRUE
    ELSE IF seq = <<>> THEN FALSE
    ELSE IF Head(sub) = Head(seq) THEN IsSubsequence(Tail(sub), Tail(seq))
    ELSE IsSubsequence(sub, Tail(seq))

\* C20: the reader's offer to the input channel can always be taken at once;
\* on a full channel it leaves the queued bytes as they are and the new byte
\* is lost; the channel never holds more than its capacity, and the bytes
\* the game loop received, followed by the bytes still queued, are a
\* subsequence, in order, of the bytes read.
C20_ReaderNeverBlocks ==
    /\ [](reader.pc = "select" => ENABLED ReaderSelect)
    /\ [](Len(inputCh) <= InputCap)
    /\ [](IsSubsequence(bytesDelivered \o inputCh, bytesRead))
    /\ [][(ReaderSelect /\ Len(inputCh) = InputCap)
            => /\ inputCh' = inputCh
               /\ bytesDelivered' = bytesDelivered
               /\ reader'.pc = "read"]_vars

\* three bytes were read, the second was offered to a full channel and lost,
\* and the game loop has received the first and the third
C20_Witness ==
    /\ Len(bytesRead) = 3
    /\ bytesRead[2] # bytesRead[1]
    /\ bytesRead[2] # bytesRead[3]
    /\ bytesDelivered = <<bytesRead[1], bytesRead[3]>>
    /\ inputCh = <<>>

(***************************************************************************)
(* Claims about the renderer and the display surface, checked under        *)
(* SpecView.                                                               *)
(***************************************************************************)
\* C12: from a camera inside an enclosed map, the DDA loop of every column
\* ends on a wall cell after at most Width + Height passes.
C12_RayHitsWithinBound ==
    cast.pc = "march" =>
        /\ cast.ray.steps <= Map.Width + Map.Height
        /\ cast.ray.hit = 1 => IsWall(Map, cast.ray.mapX, cast.ray.mapY)
        /\ cast.ray.hit = 0 => /\ cast.ray.steps < Map.Width + Map.Height
                               /\ ENABLED RayStep

\* a ray has crossed three cells of the corridor, the first two
\* along X and the last along Y, and stands on a wall cell
C12_Witness ==
    /\ cast.pc = "march"
    /\ Map = HallMap
    /\ cast.ray.hit = 1
    /\ cast.ray.steps >= 3
    /\ cast.ray.side = 1
    /\ cast.ray.mapX # GoInt(PlayerOf(Viewer).Position.X)

\* the cells of column c that the step changes
ColumnChanged(c) == \E y \in DOMAIN screen.Buffer : screen'.Buffer[y][c] # screen.Buffer[y][c]

\* the sprite that DrawSprite draws in this step
Drawn == sprites.list[sprites.next]

\* C13: a sprite whose forward distance is greater than the depth recorded
\* for a column writes no cell of that column.
C13_NoWriteBehindWall ==
    [][DrawSprite =>
         \A c \in 0..(Len(zBuffer) - 1) :
            Drawn.transformedY > zBuffer[c + 1] => ~ColumnChanged(c)]_vars

\* C13 as the code has it: a sprite whose forward distance is at least the
\* recorded depth plus 0.1 writes no cell of that column.
C13_NoWriteBehindWallByTolerance ==
    [][DrawSprite =>
         \A c \in 0..(Len(zBuffer) - 1) :
            Drawn.transformedY >= zBuffer[c + 1] + 10 => ~ColumnChanged(c)]_vars

\* the sprites drawn so far in this frame
DrawnSoFar == { sprites.list[k] : k \in 1..(sprites.next - 1) }

\* the middle row of the game area, where every sprite is centred
CentreRow == GoDiv(screen.GameHeight, 2)

\* a player sprite was drawn in its centre column and left out of a
\* neighbouring column of its width, where a nearer wall was recorded
C13_Witness ==
    /\ cast.pc = "draw"
    /\ \E spr \in DrawnSoFar :
         LET centre == ScreenX(spr, PlayerOf(Viewer), Len(zBuffer))
         IN  /\ spr.spriteType = "player"
             /\ centre + 1 < Len(zBuffer)
             /\ SpriteWidth(spr, SpriteSize(spr, screen.GameHeight)) >= 2
             /\ spr.transformedY >= zBuffer[centre + 2] + 10
             /\ screen.Buffer[CentreRow][centre].by = spr.id
             /\ \A y \in DOMAIN screen.Buffer : screen.Buffer[y][centre + 1].by # spr.id

\* a sprite that is on the screen and passes the depth test at its centre
Visible(spr) ==
    LET centre == ScreenX(spr, PlayerOf(Viewer), Len(zBuffer))
    IN  centre >= 0 /\ centre < Len(zBuffer) /\ InFront(spr, zBuffer, centre)

\* C14: the sprites are drawn in order of non-increasing forward distance,
\* whatever order they were collected in; when the frame is finished, the
\* centre cell of the nearest visible sprite has that sprite's colour.
C14_FarthestFirst ==
    sprites # <<>> =>
        /\ \A i, j \in 1..Len(sprites.list) :
              i < j => sprites.list[i].transformedY >= sprites.list[j].transformedY
        /\ (cast.pc = "done" /\ nCalls = 0) =>
              \A k \in 1..Len(sprites.list) :
                 LET spr == sprites.list[k]
                 IN  ( /\ Visible(spr)
                       /\ \A l \in 1..Len(sprites.list) :
                            l # k => sprites.list[l].transformedY > spr.transformedY )
                     => LET cell == screen.Buffer[CentreRow][ScreenX(spr, PlayerOf(Viewer), Len(zBuffer))]
                        IN  cell.by = spr.id /\ cell.Color.base = spr.spriteType

\* three actors at three distances in one screen column, collected nearest
\* first: the frame ends with the nearest one's colour at the centre
C14_Witness ==
    /\ cast.pc = "done"
    /\ nCalls = 0
    /\ Len(sprites.list) = 3
    /\ \A k \in 1..3 : Visible(sprites.list[k])
    /\ \A k \in 1..3 : ScreenX(sprites.list[k], PlayerOf(Viewer), Len(zBuffer))
                        = ScreenX(sprites.list[1], PlayerOf(Viewer), Len(zBuffer))
    /\ sprites.list[1].transformedY > sprites.list[2].transformedY
    /\ sprites.list[2].transformedY > sprites.list[3].transformedY
    /\ sprites.list[3].id = 1
    /\ screen.Buffer[CentreRow][ScreenX(sprites.list[3], PlayerOf(Viewer), Len(zBuffer))].by = 1

\* C15: two sprites of equal forward distance are drawn in the order in
\* which they were collected.
C15_SortIsStable ==
    sprites # <<>> =>
        \A i, j \in 1..Len(sprites.list) :
           (i < j /\ sprites.list[i].transformedY = sprites.list[j].transformedY)
           => sprites.list[i].id < sprites.list[j].id

\* C16: no step of a frame and no SetCell call changes a row of the HUD, the
\* rows from GameHeight on, which are the bottom two; a SetCell outside
\* [0,Width) x [0,GameHeight) changes nothing at all.
C16_HudRowsUntouched ==
    [][/\ screen'.GameHeight = screen'.Height - 2
       /\ \A y \in DOMAIN screen.Buffer :
             y >= screen.GameHeight => screen'.Buffer[y] = screen.Buffer[y]
       /\ \A x \in (0 - 1)..ScreenWidth : \A y \in (0 - 1)..ScreenHeight :
             ( /\ CallSetCell(x, y)
               /\ ~(x >= 0 /\ x < screen.Width /\ y >= 0 /\ y < screen.GameHeight) )
             => screen' = screen]_vars

\* a frame was drawn and a SetCell call on a row of the HUD has returned:
\* the mark it carried is nowhere in the buffer
C16_Witness ==
    /\ cast.pc = "done"
    /\ nCalls = 1
    /\ \E x \in DOMAIN screen.Buffer[0] : screen.Buffer[0][x].Color.base = "wall"
    /\ \A y \in DOMAIN screen.Buffer : \A x \in DOMAIN screen.Buffer[y] :
          screen.Buffer[y][x].Char # "+"

\* C19: no step of Render changes the viewing player, the other players,
\* the Map or a projectile; the lights are computed from the projectiles
\* before the call.
C19_RenderReadsItsInputs ==
    [][(RenderBegin \/ RayStep \/ DrawSlice \/ SpritesBegin \/ DrawSprite \/ RenderReturn)
         => UNCHANGED <<Map, sessions, Players, Projectiles, projHeap>>]_vars

\* a frame with a spent fireball in the set and two sprites drawn is done
C19_Witness ==
    /\ cast.pc = "done"
    /\ Len(sprites.list) >= 2
    /\ \E k \in 1..Len(Projectiles) : ~projHeap[Projectiles[k]].Active
    /\ \E y \in DOMAIN screen.Buffer : \E x \in DOMAIN screen.Buffer[y] : screen.Buffer[y][x].by # 0

(***************************************************************************)
(* C30: every live session keeps its place in the registry: whenever no    *)
(* call is in progress, each session that AddPlayer returned and that      *)
(* RemovePlayer has not marked is the session gs.Players holds for its id, *)
(* also after AddPlayer was called again with an id already registered.    *)
(***************************************************************************)
C30_LiveSessionIsRegistered ==
    (\A t \in Clients : pc[t] = "idle") =>
        \A i \in 1..Len(sessions) :
            sessions[i].Connected => Players[sessions[i].ID] = i

(***************************************************************************)
(* C23: disconnected is terminal for a session object: a session that      *)
(* RemovePlayer has marked not connected is in no registry entry, and no   *)
(* later step connects it again or changes it, whatever joins and leaves   *)
(* follow; a later join with the same id makes a new session object.       *)
(***************************************************************************)
C23_DisconnectedIsTerminal ==
    /\ [](\A i \in 1..Len(sessions) :
            ~sessions[i].Connected => \A id \in SessionIDs : Players[id] # i)
    /\ [][\A i \in 1..Len(sessions) :
            ~sessions[i].Connected =>
                /\ i <= Len(sessions')
                /\ sessions'[i] = sessions[i]
                /\ \A id \in SessionIDs : Players'[id] # i]_vars

\* a removed session and, under the same id, a newer connected one
C23_Witness ==
    \E i \in 1..Len(sessions) :
        /\ ~sessions[i].Connected
        /\ Players[sessions[i].ID] \notin {NoSession, i}
        /\ sessions[Players[sessions[i].ID]].Connected
        /\ pc[sessions[i].ID] = "idle"

(***************************************************************************)
(* C22: every successful join places the new Player in an empty cell of    *)
(* the Grid: the cell (floor(x), floor(y)) of the spawn position is inside *)
(* the map and holds 0, and the offset inside the cell lies in [0.2, 0.8)  *)
(* on both axes.  Checked under SpecSpawn.                                 *)
(***************************************************************************)
C22_SpawnInEmptyCell ==
    \A i \in 1..Len(sessions) :
        LET pos == sessions[i].Player.Position
        IN  /\ GoInt(pos.X) \in 0..(Map.Width - 1)
            /\ GoInt(pos.Y) \in 0..(Map.Height - 1)
            /\ Map.Grid[GoInt(pos.Y) + 1][GoInt(pos.X) + 1] = 0
            /\ pos.X - GoInt(pos.X) * FP \in 20..79
            /\ pos.Y - GoInt(pos.Y) * FP \in 20..79

\* what NPC.Update intends for agent npc: whether its timer expires, the
\* direction it moves along, the position it aims at, and the axes blocked
Intent(npc, dt, m, rAngle) ==
    LET expired == npc.MovementTimer - dt <= 0
        dir == IF expired THEN RandDir(rAngle) ELSE npc.Direction
        aim == Vec(npc.Position.X + FMul(dir.X, FMul(npc.Speed, dt)),
                   npc.Position.Y + FMul(dir.Y, FMul(npc.Speed, dt)))
        blockedX == IsWall(m, GoInt(aim.X), GoInt(npc.Position.Y))
        afterX == IF blockedX THEN npc.Position.X ELSE aim.X
    IN  [ expired |-> expired, dir |-> dir, aim |-> aim, blockedX |-> blockedX,
          afterX |-> afterX, blockedY |-> IsWall(m, GoInt(afterX), GoInt(aim.Y)) ]

(***************************************************************************)
(* C26: after every NPC.Update the agent's MovementTimer is strictly       *)
(* positive: it is 0.5 when an axis was blocked in this update, a value in *)
(* [2.0, 4.0) when the timer expired and no axis was blocked, and the      *)
(* previous value minus deltaTime otherwise.  Checked under SpecNPC, where *)
(* a step that advances nTicks is one Update of every agent.               *)
(***************************************************************************)
C26_TimerStaysPositive ==
    [][nTicks' = nTicks + 1 =>
         \E dt \in AgentDeltas, rAngle \in randDraws, rTimer \in randDraws :
            \A k \in DOMAIN NPCs :
               LET in == Intent(NPCs[k], dt, Map, rAngle)
                   timer == NPCs'[k].MovementTimer
               IN  /\ NPCs'[k] = NPCUpdate(NPCs[k], dt, Map, rAngle, rTimer)
                   /\ timer > 0
                   /\ (in.blockedX \/ in.blockedY) => timer = 50
                   /\ (in.expired /\ ~in.blockedX /\ ~in.blockedY) => timer \in 200..399
                   /\ (~in.expired /\ ~in.blockedX /\ ~in.blockedY)
                         => timer = NPCs[k].MovementTimer - dt]_vars

\* with every draw 0.0 a timer starts at 2.0 and is below 2.0 after any
\* update that neither bounced nor reset it: here one agent has just
\* bounced and another has just had its expired timer reset
C26_Witness ==
    /\ randDraws = {0}
    /\ nTicks >= 1
    /\ \E k \in DOMAIN NPCs : NPCs[k].MovementTimer = 50
    /\ \E k \in DOMAIN NPCs : NPCs[k].MovementTimer = 200

(***************************************************************************)
(* Claims about single calls, checked under SpecActor.                     *)
(***************************************************************************)
\* the two calls of Projectile.Update that probe holds, each as the
\* projectile before the call and after it
UpdateCalls ==
    IF probe # <<>> /\ probe.op = "Projectile.Update"
    THEN { <<probe.before, probe.after>>, <<probe.after, probe.again>> }
    ELSE {}

\* C24: when Projectile.Update deactivates a projectile, because its life
\* reached 0 or below or because its destination cell is a wall, the
\* position is left unchanged; and Update on an inactive projectile changes
\* none of its fields, its remaining life included.
C24_DeactivationKeepsPosition ==
    \A c \in UpdateCalls :
        /\ (c[1].Active /\ ~c[2].Active) => c[2].Position = c[1].Position
        /\ ~c[1].Active => c[2] = c[1]

\* a projectile with life to spare is stopped by a wall, and the next call
\* finds it inactive
C24_Witness ==
    /\ probe # <<>>
    /\ probe.op = "Projectile.Update"
    /\ probe.before.Active
    /\ ~probe.after.Active
    /\ probe.after.Life > 0
    /\ probe.after.Life = probe.before.Life - probe.dt
    /\ probe.again = probe.after

\* where the move of key takes player p when nothing is in the way
PlayerAim(p, key, dt) ==
    LET step == FMul(p.MoveSpeed, dt)
        d == p.Direction
    IN  CASE key = "w" -> Add(p.Position, Scale(d, step))
          [] key = "s" -> Sub(p.Position, Scale(d, step))
          [] key = "a" -> Add(p.Position, Scale(Vec(-d.Y, d.X), step))
          [] key = "d" -> Add(p.Position, Scale(Vec(d.Y, -d.X), step))

\* the two wall tests of a move from pos towards aim: the X test looks from
\* the old Y, the Y test from the X that the X step left
Blocked(pos, aim, m) ==
    LET bx == IsWall(m, GoInt(aim.X), GoInt(pos.Y))
    IN  [ X |-> bx,
          Y |-> IsWall(m, GoInt(IF bx THEN pos.X ELSE aim.X), GoInt(aim.Y)) ]

\* the call in probe as a move: from where, towards where, and to where
ProbedMove ==
    IF probe = <<>> THEN {}
    ELSE IF probe.op = "processInput" /\ probe.key \in MoveKeys
    THEN { [ actor |-> "player", from |-> probe.before.Position,
             aim |-> PlayerAim(probe.before, probe.key, probe.dt),
             to |-> probe.after.Position ] }
    ELSE IF probe.op = "NPC.Update"
    THEN { [ actor |-> "agent", from |-> probe.before.Position,
             aim |-> Intent(probe.before, probe.dt, Map, probe.rAngle).aim,
             to |-> probe.after.Position ] }
    ELSE {}

\* C25 as stated: movement is resolved per axis for players and wandering
\* agents; when only the X destination cell is a wall, Y advances to the
\* intended value and X is unchanged, and symmetrically when only Y is
\* blocked; the Y test uses the X that the X step left.
C25_PerAxisMove ==
    \A mv \in ProbedMove :
        LET b == Blocked(mv.from, mv.aim, Map)
        IN  /\ (b.X /\ ~b.Y) => mv.to = Vec(mv.from.X, mv.aim.Y)
            /\ (~b.X /\ b.Y) => mv.to = Vec(mv.aim.X, mv.from.Y)

\* C25 amended: the same, where an agent's resulting coordinates are then
\* clamped to [0.2, Width-0.2] and [0.2, Height-0.2]; a player's are not.
C25_PerAxisMoveThenClamp ==
    \A mv \in ProbedMove :
        LET b == Blocked(mv.from, mv.aim, Map)
            end(v) == IF mv.actor = "agent"
                      THEN Vec(Clamp(20, Map.Width * FP - 20, v.X),
                               Clamp(20, Map.Height * FP - 20, v.Y))
                      ELSE v
        IN  /\ (b.X /\ ~b.Y) => mv.to = end(Vec(mv.from.X, mv.aim.Y))
            /\ (~b.X /\ b.Y) => mv.to = end(Vec(mv.aim.X, mv.from.Y))

\* a player is stopped along Y only, in a move whose Y test gives another
\* answer from the old X than from the new one
C25_Witness ==
    \E mv \in ProbedMove :
        /\ mv.actor = "player"
        /\ ~Blocked(mv.from, mv.aim, Map).X
        /\ Blocked(mv.from, mv.aim, Map).Y
        /\ ~IsWall(Map, GoInt(mv.from.X), GoInt(mv.aim.Y))
        /\ mv.to = Vec(mv.aim.X, mv.from.Y)
        /\ mv.aim.X # mv.from.X

(***************************************************************************)
(* C28: a player that starts in a passable cell is never placed in a wall  *)
(* cell: after any sequence of MoveForward, MoveBackward, StrafeLeft,      *)
(* StrafeRight, RotateLeft and RotateRight with any deltaTime values,      *)
(* IsWall(int(Position.X), int(Position.Y)) is false.  Checked under       *)
(* SpecLocal, whose player starts at (1.5, 1.5).                           *)
(***************************************************************************)
C28_PlayerNeverInWall ==
    \A i \in 1..Len(sessions) :
        ~IsWall(Map, GoInt(sessions[i].Player.Position.X),
                     GoInt(sessions[i].Player.Position.Y))

\* after the last frame the player has turned and stands in another cell
\* than the one it started in
C28_Witness ==
    /\ nTicks = MaxFrames
    /\ sessions[1].Player.Direction # NewPlayer(150, 150).Direction
    /\ GoInt(sessions[1].Player.Position.X) # 1
    /\ GoInt(sessions[1].Player.Position.Y) # 1

\* the turns that probe holds: the player before the turn, the key and the
\* deltaTime, the player after it
ProbedTurn ==
    IF probe # <<>> /\ probe.op = "processInput" /\ probe.key \in TurnKeys
    THEN {probe} ELSE {}

\* the unit vector to the side StrafeLeft moves a player heading d toward,
\* and the inner product that tells on which side of d a vector lies
LeftOf(d) == Vec(-d.Y, d.X)
Dot(u, v) == FMul(u.X, v.X) + FMul(u.Y, v.Y)

\* C29: left and right are consistent across the player's actions:
\* RotateLeft turns the view direction toward the side that StrafeLeft moves
\* toward, which is the side of screen column 0, and RotateRight toward the
\* StrafeRight side; the Q key triggers the left turn, the E key the right.
C29_LeftIsLeft ==
    \A t \in ProbedTurn :
        LET d == t.before.Direction
            column0 == RayStart(t.before, 0, ScreenWidth).rayDir
        IN  /\ Dot(Sub(column0, d), LeftOf(d)) > 0
            /\ RotateLeft(t.before, t.dt).Direction = LeftOf(d)
            /\ RotateRight(t.before, t.dt).Direction = Scale(LeftOf(d), -FP)
            /\ t.key = "q" => t.after = RotateLeft(t.before, t.dt)
            /\ t.key = "e" => t.after = RotateRight(t.before, t.dt)

(***************************************************************************)
(* Claims about the wall pass, checked under SpecSlice.                    *)
(***************************************************************************)
\* the columns drawn so far
SlicedColumns == { x \in 0..(Len(zBuffer) - 1) : zBuffer[x + 1] # 0 }

\* column x as the wall pass must have left it when the strip is the rows
\* first..last: ceiling above, wall in the strip, floor below, every row of
\* the game area in exactly one of the three; the denominator of each
\* ceiling and floor row is a positive odd integer and the row's distance is
\* the quotient, not the fallback
SlicedAsSpan(x, first, last) ==
    LET gameHeight == screen.GameHeight
        centre == GoDiv(gameHeight, 2)
        Quotient(denominator) ==
            [base |-> "", rowDistance |-> FDiv(gameHeight * FP, denominator * FP)]
    IN  \A y \in 0..(gameHeight - 1) :
            LET cell == screen.Buffer[y][x]
                above == y < first
                below == y > last
                denominator == IF above THEN 2 * (centre - y) - 1 ELSE 2 * (y - centre) - 1
            IN  /\ (~above /\ ~below) => cell.Char = "#" /\ cell.Color.base = "wall"
                /\ (above \/ below) =>
                      /\ ~(above /\ below)
                      /\ denominator > 0
                      /\ denominator % 2 = 1
                      /\ cell.Color = [Quotient(denominator) EXCEPT
                                          !.base = IF above THEN "ceiling" ELSE "floor"]

\* C27 as stated: for every column and every non-negative line height the
\* wall span [drawStart, drawEnd] lies inside [0, gameAreaHeight) with
\* drawStart <= drawEnd; ceiling, wall and floor rows partition the column,
\* and on each ceiling or floor row the row-distance denominator is a
\* positive odd integer, so the fallback is never taken.
C27_WallSpanPartitionsColumn ==
    \A x \in SlicedColumns :
        LET gameHeight == screen.GameHeight
            lh == lineHeight(gameHeight, zBuffer[x + 1])
            first == drawStart(gameHeight, lh)
            last == drawEnd(gameHeight, lh)
        IN  /\ lh >= 0
            /\ 0 <= first /\ first <= last /\ last < gameHeight
            /\ SlicedAsSpan(x, first, last)

\* C27 amended: the same when the game area has at least one row; on a
\* terminal of two rows the game area is empty, the span is [0, -1] and no
\* cell is written.
C27_WallSpanPartitionsGameArea ==
    \A x \in SlicedColumns :
        LET gameHeight == screen.GameHeight
            lh == lineHeight(gameHeight, zBuffer[x + 1])
            first == drawStart(gameHeight, lh)
            last == drawEnd(gameHeight, lh)
        IN  /\ lh >= 0
            /\ gameHeight >= 1 => (0 <= first /\ first <= last /\ last < gameHeight)
            /\ gameHeight = 0 => (first = 0 /\ last = -1)
            /\ SlicedAsSpan(x, first, last)
            /\ \A y \in gameHeight..(screen.Height - 1) : screen.Buffer[y][x] = BlankCell

\* a game area of an odd number of rows in which one column has ceiling,
\* wall and floor and another is wall from top to bottom
C27_Witness ==
    /\ screen.GameHeight % 2 = 1
    /\ \E x \in SlicedColumns :
         LET lh == lineHeight(screen.GameHeight, zBuffer[x + 1])
         IN  /\ drawStart(screen.GameHeight, lh) > 0
             /\ drawEnd(screen.GameHeight, lh) < screen.GameHeight - 1
             /\ drawStart(screen.GameHeight, lh) < drawEnd(screen.GameHeight, lh)
    /\ \E x \in SlicedColumns :
         /\ lineHeight(screen.GameHeight, zBuffer[x + 1]) > 2 * screen.GameHeight
         /\ \A y \in 0..(screen.GameHeight - 1) : screen.Buffer[y][x].Char = "#"

(***************************************************************************)
(* Claims about the session loop, checked under SpecFrameLive.             *)
(***************************************************************************)
\* seq begins with pre
IsPrefix(pre, seq) ==
    Len(pre) <= Len(seq) /\ \A k \in 1..Len(pre) : seq[k] = pre[k]

\* player p after the keys of seq, first to last, each with deltaTime dt
RECURSIVE KeysApplied(_, _, _)
KeysApplied(p, seq, dt) ==
    IF seq = <<>> THEN p
    ELSE KeysApplied(KeyOnPlayer(p, Head(seq), dt, Map), Tail(seq), dt)

\* C21: in each frame every input byte that is in the queue when the drain
\* starts is applied to the Player, in queue order, before that frame's
\* render call; the drain returns as soon as the queue is empty and never
\* blocks waiting for input.
C21_DrainBeforeRender ==
    /\ [][FrameRender =>
            /\ IsPrefix(probe.queued, probe.applied)
            /\ sessions[1].Player = KeysApplied(probe.start, probe.applied, tick.dt)]_vars
    /\ [][DrainDone => inputCh = <<>>]_vars
    /\ [](pc[TickLoop] = "drain" => ENABLED (DrainKey \/ DrainDone))
    /\ []((pc[TickLoop] = "drain" /\ inputCh = <<>>) => ~ENABLED DrainKey)
    /\ (pc[TickLoop] = "drain") ~> (pc[TickLoop] \in {"render", "exit"})

\* a frame about to render whose drain applied the byte it found queued and
\* a second one that the reader offered meanwhile, and moved the Player
C21_Witness ==
    /\ pc[TickLoop] = "render"
    /\ Len(probe.queued) = 1
    /\ Len(probe.applied) = 2
    /\ probe.applied[1] # probe.applied[2]
    /\ sessions[1].Player # probe.start
====
